---- MODULE Spec2Model ----
(***************************************************************************)
(* Supervisor core of ouroboros: the lease locks (supervisor/state.py      *)
(* acquire_file_lock / release_file_lock, supervisor/lock.py               *)
(* acquire_git_lock / release_git_lock) and the state store                *)
(* (load_state / save_state / init_state over atomic_write_text).          *)
(*                                                                         *)
(* Processes are independent OS processes that share only the filesystem:  *)
(* the two lock files, the primary state file and the last-good file.      *)
(* Every filesystem call is one step.  Time is a discrete clock of         *)
(* TickSec seconds per tick, kept as relative clocks (the age of a lock    *)
(* file, the time since an acquire call started).  The steps inside an     *)
(* acquire call other than its sleep take no time: the clock advances only *)
(* while every process is sleeping, working under the lock, or outside a   *)
(* call.                                                                   *)
(***************************************************************************)
EXTENDS Integers, Sequences, FiniteSets, TLC

VARIABLES
    mode,       \* which lock the behaviour exercises: "state", "git" or "store"
    lock,       \* lock[l]: the lock file at path l
    everStale,  \* history: everStale[l] iff a file at l was ever older than stale_sec
    pc,         \* pc[p]: position of process p
    op,         \* op[p]: the operation p is in
    acq,        \* acq[p]: outcome of p's acquire call: "pending", "ok", "timeout"
    elapsed,    \* elapsed[p]: ticks since p's acquire call read `started`/`deadline`
    seen,       \* history: the lock file as p's acquire call found it
    quiet,      \* history: no other process changed the lock file during p's acquire
    slept,      \* history: p's acquire call has backed off (time.sleep)
    primary,    \* content of STATE_PATH
    lastGood,   \* content of STATE_LAST_GOOD_PATH
    pre,        \* history: pre[p] = content of both files when p's call started
    st,         \* st[p]: the document p loads or saves
    phase,      \* phase[p]: "load" inside _load_state_unlocked, "save" in the caller's save
    target,     \* target[p]: the path atomic_write_text is writing
    tmp,        \* tmp[p]: content of p's temporary file
    result,     \* result[p]: what p's call returned or raised
    wreck,      \* history: the latest crash, until a later call completes
    saved,      \* history: the argument of the latest save_state that returned
    workers,    \* workers[w]: busy_task_id of worker slot w
    pending,    \* the pending list, in enqueue order
    running,    \* running[t]: the running entry of task t
    terminal,   \* the terminal-failure record
    enqueued,   \* the task ids used in this queue epoch
    last,       \* history: the supervisor's latest queue operation
    inp,        \* the arguments of the function under study
    out,        \* what that function returned
    llm,        \* the LLMClient: its settings, warmed models and current chat call
    rot         \* the chat log, its archive directory and the rotations under way

baseVars == <<mode, lock, everStale, pc, op, acq, elapsed, seen, quiet, slept,
              primary, lastGood, pre, st, phase, target, tmp, result, wreck, saved>>
poolVars == <<workers, pending, running, terminal, enqueued, last>>
auxVars == <<inp, out, llm, rot>>
vars == <<baseVars, poolVars, auxVars>>

lockVars == <<lock, everStale, acq, elapsed, seen, quiet, slept>>
fileVars == <<primary, lastGood>>
localVars == <<st, phase, target, tmp, result, pre, wreck, saved>>

Procs == {"p1", "p2"}
Locks == {"state", "git"}

(***************************************************************************)
(* Time.                                                                   *)
(***************************************************************************)
TickSec == 60

FileTimeoutSec == 4
FileStaleSec == 90
GitTimeoutSec == 120
GitStaleSec == 600

TimeoutSec(l) == IF l = "state" THEN FileTimeoutSec ELSE GitTimeoutSec
StaleSec(l) == IF l = "state" THEN FileStaleSec ELSE GitStaleSec

\* The clocks stop counting once every comparison the code makes is decided.
AgeCap(l) == (StaleSec(l) \div TickSec) + 1
ElapsedCap(l) == (TimeoutSec(l) + TickSec - 1) \div TickSec
Min(a, b) == IF a < b THEN a ELSE b

\* Ground truth used by the properties: the file at l is older than stale_sec.
OlderThanStale(l) == lock[l].exists /\ lock[l].age * TickSec > StaleSec(l)

(***************************************************************************)
(* Documents and file contents.                                            *)
(***************************************************************************)
RequiredKeys ==
    {"created_at", "owner_id", "owner_chat_id", "tg_offset", "session_id",
     "current_branch", "current_sha", "last_owner_message_at",
     "last_evolution_task_at", "evolution_mode_enabled", "evolution_cycle",
     "evolution_consecutive_failures"}

LegacyKeys ==
    {"approvals", "idle_cursor", "idle_stats", "last_idle_task_at",
     "last_auto_review_at", "last_review_task_id", "session_daily_snapshot"}

\* JSON values are written as their JSON text.
DefaultValue(k, ts, uid) ==
    CASE k = "created_at" -> ts
      [] k = "session_id" -> uid
      [] k \in {"owner_id", "owner_chat_id", "current_branch", "current_sha"} -> "null"
      [] k \in {"tg_offset", "evolution_cycle", "evolution_consecutive_failures"} -> "0"
      [] k \in {"last_owner_message_at", "last_evolution_task_at"} -> ""
      [] k = "evolution_mode_enabled" -> "false"
      [] OTHER -> "null"

\* Variant: session_id is assigned instead of set by setdefault.
ensure_state_defaults_assigns_session(d, ts, uid) ==
    LET filled == [k \in (DOMAIN d) \cup RequiredKeys |->
                      IF k = "session_id" THEN uid
                      ELSE IF k \in DOMAIN d THEN d[k] ELSE DefaultValue(k, ts, uid)]
    IN  [k \in (DOMAIN filled) \ LegacyKeys |-> filled[k]]

\* Variant: the loop that pops the legacy keys is missing.
ensure_state_defaults_keeps_legacy(d, ts, uid) ==
    [k \in (DOMAIN d) \cup RequiredKeys |->
        IF k \in DOMAIN d THEN d[k] ELSE DefaultValue(k, ts, uid)]

ensure_state_defaults(d, ts, uid) ==
    LET filled == [k \in (DOMAIN d) \cup RequiredKeys |->
                      IF k \in DOMAIN d THEN d[k] ELSE DefaultValue(k, ts, uid)]
    IN  [k \in (DOMAIN filled) \ LegacyKeys |-> filled[k]]

EmptyDoc == [k \in {} |-> ""]

default_state_dict(ts, uid) == ensure_state_defaults(EmptyDoc, ts, uid)

\* What datetime.now() and uuid.uuid4() can return in the model.
Timestamps == {"t2"}
Uuids == {"u2", "u3"}

\* A file: missing, not JSON, JSON but not an object, an object, or a prefix
\* of an object's text.
Missing == [kind |-> "missing", doc |-> EmptyDoc]
Garbage == [kind |-> "garbage", doc |-> EmptyDoc]
NonObject == [kind |-> "nonobject", doc |-> EmptyDoc]
Torn(d) == [kind |-> "torn", doc |-> d]
\* json.dumps of a document of JSON values, as file content.
json_dumps(d) == [kind |-> "doc", doc |-> d]

None == [some |-> FALSE, doc |-> EmptyDoc]
Some(d) == [some |-> TRUE, doc |-> d]

\* Variant: without the isinstance(obj, dict) test any JSON value is returned.
json_load_file_any_json(content) ==
    IF content.kind \in {"doc", "nonobject"} THEN Some(content.doc) ELSE None

json_load_file(content) ==
    IF content.kind = "doc" THEN Some(content.doc) ELSE None

\* Documents found on disk at start, and documents callers pass to save_state.
FullDoc == [default_state_dict("t1", "u1") EXCEPT !["owner_id"] = "42"]
OldDoc == ("owner_id" :> "42") @@ ("session_id" :> "u1") @@ ("approvals" :> "x")
BareDoc == ("tg_offset" :> "7") @@ ("idle_stats" :> "y")
NextDoc == [FullDoc EXCEPT !["tg_offset"] = "8"]

DiskDocs == {FullDoc, OldDoc}
InputDocs == {NextDoc, BareDoc}
DiskContents == {Missing, Garbage, NonObject} \cup {json_dumps(d) : d \in DiskDocs}

SaveDocs == IF mode = "store" THEN InputDocs ELSE {NextDoc}
UuidChoices == IF mode \in {"store", "session"} THEN Uuids ELSE {"u2"}

(***************************************************************************)
(* Lock files.                                                             *)
(***************************************************************************)
NoLock == [exists |-> FALSE, age |-> 0, owner |-> "none"]
NewLock(p) == [exists |-> TRUE, age |-> 0, owner |-> p]

LockOf(o) == IF o = "git" THEN "git" ELSE "state"

\* `while (time.time() - started) < timeout_sec` / `while time.time() < deadline`
\* A loop test that never ends the loop.
WithinTimeout_forever(l, e) == TRUE

WithinTimeout(l, e) == e * TickSec < TimeoutSec(l)

\* Variants of the staleness test: the age compared with the timeout instead
\* of stale_sec; the comparison turned round.
LockIsStale_vs_timeout(l, age) == age * TickSec > TimeoutSec(l)
LockIsStale_reversed(l, age) == age * TickSec < StaleSec(l)

\* `age > stale_sec`
LockIsStale(l, age) == age * TickSec > StaleSec(l)

\* Variant: os.open without O_EXCL succeeds on an existing path too.
CanCreate_without_excl(l) == TRUE

\* os.open(..., O_CREAT | O_EXCL | O_WRONLY) succeeds iff the path is absent.
CanCreate(l) == ~lock[l].exists

InAcquire(p) == acq[p] = "pending" \/ pc[p] = "acq_ret"
InCall(p) == pc[p] \notin {"idle", "off", "crashed"}
Holds(p) == acq[p] = "ok" /\ pc[p] \notin {"idle", "off", "crashed", "done"}

\* History bookkeeping when p changes the lock file at l.
Touched(p, l) ==
    [q \in Procs |-> IF q # p /\ InAcquire(q) /\ LockOf(op[q]) = l
                     THEN FALSE ELSE quiet[q]]

LockStatus(l) ==
    IF ~lock[l].exists THEN "free"
    ELSE IF OlderThanStale(l) THEN "stale" ELSE "fresh"


NoResult == [kind |-> "none", doc |-> EmptyDoc]
Returned(d) == [kind |-> "ret", doc |-> d]
Raised == [kind |-> "raise", doc |-> EmptyDoc]
NoSaved == [known |-> FALSE, doc |-> EmptyDoc]
NoPre == [primary |-> Missing, lastGood |-> Missing, arg |-> EmptyDoc,
          since |-> NoSaved]
NoWreck == [at |-> "none", target |-> "primary", prev |-> Missing]

(***************************************************************************)
(* Calls.  A process outside a call starts load_state, save_state(d),      *)
(* init_state, or a git-mutating section (acquire_git_lock ... release).   *)
(***************************************************************************)
Call(p, o, d) ==
    /\ pc[p] = "idle"
    /\ pc' = [pc EXCEPT ![p] = IF o = "git" THEN "gl_try" ELSE "fl_try"]
    /\ op' = [op EXCEPT ![p] = o]
    /\ acq' = [acq EXCEPT ![p] = "pending"]
    /\ elapsed' = [elapsed EXCEPT ![p] = 0]
    /\ seen' = [seen EXCEPT ![p] = LockStatus(LockOf(o))]
    /\ quiet' = [quiet EXCEPT ![p] = TRUE]
    /\ slept' = [slept EXCEPT ![p] = FALSE]
    /\ st' = [st EXCEPT ![p] = d]
    /\ phase' = [phase EXCEPT ![p] = IF o = "save" THEN "save" ELSE "load"]
    /\ pre' = [q \in Procs |->
                 IF q = p
                 THEN CASE mode \in {"store", "report", "pair"} ->
                             [primary |-> primary, lastGood |-> lastGood,
                              arg |-> d, since |-> IF o = "save" THEN NoSaved ELSE saved]
                        [] mode = "order" ->
                             [NoPre EXCEPT !.arg = d,
                                           !.since = IF o = "save" THEN NoSaved ELSE saved]
                        [] OTHER -> NoPre
                 ELSE IF o = "save" THEN [pre[q] EXCEPT !.since = NoSaved] ELSE pre[q]]
    /\ saved' = IF o = "save" THEN NoSaved ELSE saved
    /\ UNCHANGED <<auxVars, poolVars, mode, lock, everStale, primary, lastGood, target, tmp, result, wreck>>

\* The specifications in which the processes work with the git lock.
GitModes == {"git", "wait_git"}

load_state_call(p) == mode \notin GitModes \cup {"report"} /\ Call(p, "load", EmptyDoc)

save_state_call(p) == mode \notin GitModes \cup {"report"} /\ \E d \in SaveDocs : Call(p, "save", d)

init_state_call(p) == mode \notin GitModes \cup {"report"} /\ Call(p, "init", EmptyDoc)

acquire_git_lock_call(p) == mode \in GitModes /\ Call(p, "git", EmptyDoc)

\* status_text begins with st = load_state().
status_text_load_state(p) == mode = "report" /\ Call(p, "load", EmptyDoc)

(***************************************************************************)
(* acquire_file_lock(STATE_LOCK_PATH), state.py 73-99.                     *)
(***************************************************************************)
\* Loop test, then os.open with O_EXCL: the fd on success, FileExistsError
\* otherwise; past the timeout the loop ends and the call returns None.
acquire_file_lock_try(p) ==
    /\ pc[p] = "fl_try"
    /\ IF WithinTimeout("state", elapsed[p])
       THEN IF CanCreate("state")
            THEN /\ lock' = [lock EXCEPT !["state"] = NewLock(p)]
                 /\ acq' = [acq EXCEPT ![p] = "ok"]
                 /\ quiet' = Touched(p, "state")
                 /\ pc' = [pc EXCEPT ![p] = "acq_ret"]
            ELSE /\ pc' = [pc EXCEPT ![p] = "fl_stat"]
                 /\ UNCHANGED <<lock, acq, quiet>>
       ELSE /\ acq' = [acq EXCEPT ![p] = "timeout"]
            /\ pc' = [pc EXCEPT ![p] = "acq_ret"]
            /\ UNCHANGED <<lock, quiet>>
    /\ UNCHANGED <<auxVars, poolVars, mode, everStale, op, elapsed, seen, slept>>
    /\ UNCHANGED <<fileVars, localVars>>

\* lock_path.stat().st_mtime and the staleness test; a vanished file raises
\* and the call backs off.
acquire_file_lock_stat(p) ==
    /\ pc[p] = "fl_stat"
    /\ pc' = [pc EXCEPT ![p] =
                IF lock["state"].exists /\ LockIsStale("state", lock["state"].age)
                THEN "fl_unlink" ELSE "fl_sleep"]
    /\ UNCHANGED <<auxVars, poolVars, mode, op, lockVars, fileVars, localVars>>

\* Variant: the `continue` is missing, so the call sleeps after evicting.
acquire_file_lock_unlink_no_continue(p) ==
    /\ pc[p] = "fl_unlink"
    /\ IF lock["state"].exists
       THEN /\ lock' = [lock EXCEPT !["state"] = NoLock]
            /\ quiet' = Touched(p, "state")
       ELSE UNCHANGED <<lock, quiet>>
    /\ pc' = [pc EXCEPT ![p] = "fl_sleep"]
    /\ UNCHANGED <<auxVars, poolVars, mode, everStale, op, acq, elapsed, seen, slept>>
    /\ UNCHANGED <<fileVars, localVars>>

\* lock_path.unlink() then `continue`; a vanished file raises and the call
\* backs off.
acquire_file_lock_unlink(p) ==
    /\ pc[p] = "fl_unlink"
    /\ IF lock["state"].exists
       THEN /\ lock' = [lock EXCEPT !["state"] = NoLock]
            /\ quiet' = Touched(p, "state")
            /\ pc' = [pc EXCEPT ![p] = "fl_try"]
       ELSE /\ pc' = [pc EXCEPT ![p] = "fl_sleep"]
            /\ UNCHANGED <<lock, quiet>>
    /\ UNCHANGED <<auxVars, poolVars, mode, everStale, op, acq, elapsed, seen, slept>>
    /\ UNCHANGED <<fileVars, localVars>>

\* time.sleep(0.05)
acquire_file_lock_sleep(p) ==
    /\ pc[p] = "fl_sleep"
    /\ pc' = [pc EXCEPT ![p] = "fl_try"]
    /\ slept' = [slept EXCEPT ![p] = TRUE]
    /\ UNCHANGED <<auxVars, poolVars, mode, lock, everStale, op, acq, elapsed, seen, quiet>>
    /\ UNCHANGED <<fileVars, localVars>>

(***************************************************************************)
(* acquire_git_lock(), lock.py 21-48.                                      *)
(***************************************************************************)
\* Loop test, then lock_path.exists(); past the deadline TimeoutError.
acquire_git_lock_try(p) ==
    /\ pc[p] = "gl_try"
    /\ IF WithinTimeout("git", elapsed[p])
       THEN /\ pc' = [pc EXCEPT ![p] = IF lock["git"].exists THEN "gl_stat" ELSE "gl_open"]
            /\ UNCHANGED acq
       ELSE /\ acq' = [acq EXCEPT ![p] = "timeout"]
            /\ pc' = [pc EXCEPT ![p] = "acq_ret"]
    /\ UNCHANGED <<auxVars, poolVars, mode, lock, everStale, op, elapsed, seen, quiet, slept>>
    /\ UNCHANGED <<fileVars, localVars>>

\* stat and the staleness test; FileNotFoundError falls through to os.open.
acquire_git_lock_stat(p) ==
    /\ pc[p] = "gl_stat"
    /\ pc' = [pc EXCEPT ![p] =
                IF lock["git"].exists /\ LockIsStale("git", lock["git"].age)
                THEN "gl_unlink" ELSE "gl_open"]
    /\ UNCHANGED <<auxVars, poolVars, mode, op, lockVars, fileVars, localVars>>

\* unlink then `continue`; FileNotFoundError falls through to os.open.
acquire_git_lock_unlink(p) ==
    /\ pc[p] = "gl_unlink"
    /\ IF lock["git"].exists
       THEN /\ lock' = [lock EXCEPT !["git"] = NoLock]
            /\ quiet' = Touched(p, "git")
            /\ pc' = [pc EXCEPT ![p] = "gl_try"]
       ELSE /\ pc' = [pc EXCEPT ![p] = "gl_open"]
            /\ UNCHANGED <<lock, quiet>>
    /\ UNCHANGED <<auxVars, poolVars, mode, everStale, op, acq, elapsed, seen, slept>>
    /\ UNCHANGED <<fileVars, localVars>>

\* os.open with O_EXCL, write, close, return lock_path; FileExistsError sleeps.
acquire_git_lock_open(p) ==
    /\ pc[p] = "gl_open"
    /\ IF CanCreate("git")
       THEN /\ lock' = [lock EXCEPT !["git"] = NewLock(p)]
            /\ acq' = [acq EXCEPT ![p] = "ok"]
            /\ quiet' = Touched(p, "git")
            /\ pc' = [pc EXCEPT ![p] = "acq_ret"]
       ELSE /\ pc' = [pc EXCEPT ![p] = "gl_sleep"]
            /\ UNCHANGED <<lock, acq, quiet>>
    /\ UNCHANGED <<auxVars, poolVars, mode, everStale, op, elapsed, seen, slept>>
    /\ UNCHANGED <<fileVars, localVars>>

\* time.sleep(0.5)
acquire_git_lock_sleep(p) ==
    /\ pc[p] = "gl_sleep"
    /\ pc' = [pc EXCEPT ![p] = "gl_try"]
    /\ slept' = [slept EXCEPT ![p] = TRUE]
    /\ UNCHANGED <<auxVars, poolVars, mode, lock, everStale, op, acq, elapsed, seen, quiet>>
    /\ UNCHANGED <<fileVars, localVars>>

(***************************************************************************)
(* _save_state_unlocked(d) is entered, state.py 175-177:                   *)
(* st = ensure_state_defaults(st); payload = json.dumps(st); then          *)
(* atomic_write_text(STATE_PATH, payload) starts.                          *)
(***************************************************************************)
save_state_unlocked_begin(p, d) ==
    /\ \E ts \in Timestamps, uid \in UuidChoices :
         st' = [st EXCEPT ![p] = ensure_state_defaults(d, ts, uid)]
    /\ target' = [target EXCEPT ![p] = "primary"]
    /\ pc' = [pc EXCEPT ![p] = "aw_write"]

(***************************************************************************)
(* The acquire call returns to its caller.  load_state, save_state and     *)
(* init_state enter their try block whatever lock_fd is; a TimeoutError    *)
(* from acquire_git_lock propagates.                                       *)
(***************************************************************************)
acquire_return(p) ==
    /\ pc[p] = "acq_ret"
    /\ IF op[p] = "git"
       THEN IF acq[p] = "ok"
            THEN /\ pc' = [pc EXCEPT ![p] = "git_cs"]
                 /\ UNCHANGED result
            ELSE /\ pc' = [pc EXCEPT ![p] = "done"]
                 /\ result' = [result EXCEPT ![p] = Raised]
       ELSE /\ IF op[p] = "save"
               THEN save_state_unlocked_begin(p, st[p])
               ELSE /\ pc' = [pc EXCEPT ![p] = "ld_primary"]
                    /\ UNCHANGED <<st, target>>
            /\ UNCHANGED result
    /\ IF op[p] = "git" THEN UNCHANGED <<st, target>> ELSE TRUE
    /\ elapsed' = [elapsed EXCEPT ![p] = 0]
    /\ seen' = [seen EXCEPT ![p] = "free"]
    /\ quiet' = [quiet EXCEPT ![p] = TRUE]
    /\ slept' = [slept EXCEPT ![p] = FALSE]
    /\ UNCHANGED <<auxVars, poolVars, mode, lock, everStale, op, acq, fileVars, phase, tmp, pre, wreck, saved>>


(***************************************************************************)
(* _load_state_unlocked, state.py 154-170.                                 *)
(***************************************************************************)
\* Where the caller goes when _load_state_unlocked returns st: load_state
\* returns it, init_state saves it.
AfterLoad(p, d) ==
    IF op[p] = "init"
    THEN /\ phase' = [phase EXCEPT ![p] = "save"]
         /\ save_state_unlocked_begin(p, d)
         /\ UNCHANGED result
    ELSE /\ pc' = [pc EXCEPT ![p] = "release"]
         /\ result' = [result EXCEPT ![p] = Returned(d)]
         /\ st' = [st EXCEPT ![p] = d]
         /\ UNCHANGED <<phase, target>>

\* st_obj = json_load_file(STATE_PATH); a document is migrated and returned
\* (recovered is False), None goes on to the last-good file.
load_state_unlocked_primary(p) ==
    /\ pc[p] = "ld_primary"
    /\ LET o == json_load_file(primary)
       IN  IF o.some
           THEN \E ts \in Timestamps, uid \in UuidChoices :
                  AfterLoad(p, ensure_state_defaults(o.doc, ts, uid))
           ELSE /\ pc' = [pc EXCEPT ![p] = "ld_lastgood"]
                /\ UNCHANGED <<st, phase, target, result>>
    /\ UNCHANGED <<auxVars, poolVars, mode, op, lockVars, fileVars, tmp, pre, wreck, saved>>

\* Variant: the recovered document is returned without being saved.
load_state_unlocked_lastgood_no_heal(p) ==
    /\ pc[p] = "ld_lastgood"
    /\ LET o == json_load_file(lastGood)
       IN  \E ts \in Timestamps, uid \in UuidChoices :
             IF o.some
             THEN AfterLoad(p, ensure_state_defaults(o.doc, ts, uid))
             ELSE /\ save_state_unlocked_begin(p,
                        ensure_state_defaults(default_state_dict(ts, uid), ts, uid))
                  /\ UNCHANGED <<phase, result>>
    /\ UNCHANGED <<auxVars, poolVars, mode, op, lockVars, fileVars, tmp, pre, wreck, saved>>

\* st_obj = json_load_file(STATE_LAST_GOOD_PATH); recovered = st_obj is not
\* None.  None: the default document is synthesized and saved.  Otherwise
\* the document is migrated and, being recovered, saved.
load_state_unlocked_lastgood(p) ==
    /\ pc[p] = "ld_lastgood"
    /\ LET o == json_load_file(lastGood)
           recovered == o.some
       IN  \E ts \in Timestamps, uid \in UuidChoices :
             LET d == IF o.some THEN ensure_state_defaults(o.doc, ts, uid)
                      ELSE ensure_state_defaults(default_state_dict(ts, uid), ts, uid)
             IN  IF ~o.some \/ recovered
                 THEN /\ save_state_unlocked_begin(p, d)
                      /\ UNCHANGED <<phase, result>>
                 ELSE AfterLoad(p, d)
    /\ UNCHANGED <<auxVars, poolVars, mode, op, lockVars, fileVars, tmp, pre, wreck, saved>>

(***************************************************************************)
(* _save_state_unlocked, state.py 173-178, over atomic_write_text 45-55.   *)
(***************************************************************************)
\* Variant: the payload is written straight into the destination path, which
\* is truncated first and complete only once the write has ended.
atomic_write_text_write_in_place(p) ==
    /\ pc[p] = "aw_write"
    /\ tmp' = [tmp EXCEPT ![p] = json_dumps(st[p])]
    /\ IF target[p] = "primary"
       THEN primary' = Torn(st[p]) /\ UNCHANGED lastGood
       ELSE lastGood' = Torn(st[p]) /\ UNCHANGED primary
    /\ pc' = [pc EXCEPT ![p] = "aw_replace"]
    /\ UNCHANGED <<auxVars, poolVars, mode, op, lockVars, st, phase, target, result, pre, wreck, saved>>

\* mkdir, os.open of the uniquely named temporary file, os.write, os.fsync,
\* os.close: the temporary file holds the whole payload.
atomic_write_text_write(p) ==
    /\ pc[p] = "aw_write"
    /\ tmp' = [tmp EXCEPT ![p] = json_dumps(st[p])]
    /\ pc' = [pc EXCEPT ![p] = "aw_replace"]
    /\ UNCHANGED <<auxVars, poolVars, mode, op, lockVars, fileVars, st, phase, target, result, pre, wreck, saved>>

\* os.replace(tmp, path).  After STATE_PATH comes STATE_LAST_GOOD_PATH; after
\* that _save_state_unlocked returns: into _load_state_unlocked (which
\* returns st to load_state or init_state), or to save_state / init_state,
\* which return.
atomic_write_text_replace(p) ==
    /\ pc[p] = "aw_replace"
    /\ tmp' = [tmp EXCEPT ![p] = Missing]
    /\ IF target[p] = "primary"
       THEN /\ primary' = tmp[p]
            /\ target' = [target EXCEPT ![p] = "lastgood"]
            /\ pc' = [pc EXCEPT ![p] = "aw_write"]
            /\ UNCHANGED <<lastGood, st, phase, result>>
       ELSE /\ lastGood' = tmp[p]
            /\ UNCHANGED primary
            /\ IF phase[p] = "load"
               THEN AfterLoad(p, st[p])
               ELSE /\ pc' = [pc EXCEPT ![p] = "release"]
                    /\ result' = [result EXCEPT ![p] =
                                    Returned(IF op[p] = "init" THEN st[p] ELSE EmptyDoc)]
                    /\ UNCHANGED <<st, phase, target>>
    /\ saved' = IF mode \in {"store", "order"} /\ op[p] = "save" /\ target[p] = "lastgood"
                THEN [known |-> TRUE, doc |-> pre[p].arg]
                ELSE saved
    /\ UNCHANGED <<auxVars, poolVars, mode, op, lockVars, pre, wreck>>

\* Either step raises OSError (disk full, read-only directory):
\* nothing in load_state, save_state or init_state catches it; the finally
\* clause releases the lock and the exception reaches the caller.
atomic_write_text_raise(p) ==
    /\ pc[p] \in {"aw_write", "aw_replace"}
    /\ tmp' = [tmp EXCEPT ![p] = Missing]
    /\ pc' = [pc EXCEPT ![p] = "release"]
    /\ result' = [result EXCEPT ![p] = Raised]
    /\ UNCHANGED <<auxVars, poolVars, mode, op, lockVars, fileVars, st, phase, target, pre, wreck, saved>>

(***************************************************************************)
(* Release.                                                                *)
(***************************************************************************)
\* What a release does to the lock file lk, and whether it raises.
\* release_file_lock, state.py 102-115: nothing for None; otherwise close
\* the fd and unlink the path if it exists, every exception swallowed.
release_file_lock_effect(lk, has_fd) ==
    IF has_fd /\ lk.exists
    THEN [lock |-> NoLock, raised |-> FALSE]
    ELSE [lock |-> lk, raised |-> FALSE]

\* Variant: the FileNotFoundError of unlink is not caught.
release_git_lock_effect_no_except(lk) ==
    IF lk.exists
    THEN [lock |-> NoLock, raised |-> FALSE]
    ELSE [lock |-> lk, raised |-> TRUE]

\* release_git_lock, lock.py 51-56: unlink; FileNotFoundError is ignored.
release_git_lock_effect(lk) ==
    IF lk.exists
    THEN [lock |-> NoLock, raised |-> FALSE]
    ELSE [lock |-> lk, raised |-> FALSE]

\* An exception that left release_file_lock or release_git_lock.
ReleaseRaised == [kind |-> "raise_release", doc |-> EmptyDoc]

\* release_file_lock(STATE_LOCK_PATH, lock_fd) in the finally clause.
release_file_lock(p) ==
    /\ pc[p] = "release"
    /\ LET r == release_file_lock_effect(lock["state"], acq[p] = "ok")
       IN  /\ lock' = [lock EXCEPT !["state"] = r.lock]
           /\ quiet' = IF r.lock # lock["state"] THEN Touched(p, "state") ELSE quiet
           /\ result' = IF r.raised THEN [result EXCEPT ![p] = ReleaseRaised]
                        ELSE result
    /\ pc' = [pc EXCEPT ![p] = "done"]
    /\ UNCHANGED <<auxVars, poolVars, mode, everStale, op, acq, elapsed, seen, slept>>
    /\ UNCHANGED <<fileVars, st, phase, target, tmp, pre, wreck, saved>>

\* release_git_lock(lock_path), lock.py 51-56, at the end of the git section.
release_git_lock(p) ==
    /\ pc[p] = "git_cs"
    /\ LET r == release_git_lock_effect(lock["git"])
       IN  /\ lock' = [lock EXCEPT !["git"] = r.lock]
           /\ quiet' = IF r.lock # lock["git"] THEN Touched(p, "git") ELSE quiet
           /\ result' = [result EXCEPT ![p] =
                           IF r.raised THEN ReleaseRaised ELSE Returned(EmptyDoc)]
    /\ pc' = [pc EXCEPT ![p] = "done"]
    /\ UNCHANGED <<auxVars, poolVars, mode, everStale, op, acq, elapsed, seen, slept>>
    /\ UNCHANGED <<fileVars, st, phase, target, tmp, pre, wreck, saved>>

\* The caller has its result; the process is outside a call again.
Finish(p) ==
    /\ pc[p] = "done"
    /\ pc' = [pc EXCEPT ![p] = "idle"]
    /\ op' = [op EXCEPT ![p] = "none"]
    /\ acq' = [acq EXCEPT ![p] = "none"]
    /\ st' = [st EXCEPT ![p] = EmptyDoc]
    /\ phase' = [phase EXCEPT ![p] = "load"]
    /\ target' = [target EXCEPT ![p] = "primary"]
    /\ result' = [result EXCEPT ![p] = NoResult]
    /\ pre' = [pre EXCEPT ![p] = NoPre]
    /\ wreck' = NoWreck
    /\ UNCHANGED saved
    /\ UNCHANGED <<auxVars, poolVars, mode, lock, everStale, elapsed, seen, quiet, slept, fileVars, tmp>>

(***************************************************************************)
(* Environment: time, crashes, respawn.                                    *)
(***************************************************************************)
Urgent == {"fl_try", "fl_stat", "fl_unlink", "gl_try", "gl_stat", "gl_unlink",
           "gl_open", "acq_ret"}

Aged(l) == IF lock[l].exists
           THEN [lock[l] EXCEPT !.age = Min(lock[l].age + 1, AgeCap(l))]
           ELSE lock[l]

Tick ==
    /\ \A p \in Procs : pc[p] \notin Urgent
    /\ lock' = [l \in Locks |-> Aged(l)]
    /\ elapsed' = [p \in Procs |->
                     IF acq[p] = "pending"
                     THEN Min(elapsed[p] + 1, ElapsedCap(LockOf(op[p])))
                     ELSE elapsed[p]]
    /\ everStale' = [l \in Locks |->
                       everStale[l] \/ (Aged(l).exists /\ Aged(l).age * TickSec > StaleSec(l))]
    /\ seen' = [p \in Procs |->
                  IF /\ acq[p] = "pending"
                     /\ seen[p] = "fresh"
                     /\ Aged(LockOf(op[p])).age * TickSec > StaleSec(LockOf(op[p]))
                  THEN "aged" ELSE seen[p]]
    /\ (lock' # lock \/ elapsed' # elapsed)
    /\ UNCHANGED <<auxVars, poolVars, mode, pc, op, acq, quiet, slept, fileVars, localVars>>

\* The process dies inside a call.  Its lock file, if any, stays; a temporary
\* file being written stays as it is.
Crash(p) ==
    /\ InCall(p) /\ pc[p] # "done"
    /\ pc' = [pc EXCEPT ![p] = "crashed"]
    /\ lock' = [l \in Locks |->
                  IF lock[l].exists /\ lock[l].owner = p
                  THEN [lock[l] EXCEPT !.owner = "dead"] ELSE lock[l]]
    /\ op' = [op EXCEPT ![p] = "none"]
    /\ acq' = [acq EXCEPT ![p] = "none"]
    /\ elapsed' = [elapsed EXCEPT ![p] = 0]
    /\ seen' = [seen EXCEPT ![p] = "free"]
    /\ quiet' = [quiet EXCEPT ![p] = TRUE]
    /\ slept' = [slept EXCEPT ![p] = FALSE]
    /\ st' = [st EXCEPT ![p] = EmptyDoc]
    /\ phase' = [phase EXCEPT ![p] = "load"]
    /\ target' = [target EXCEPT ![p] = "primary"]
    /\ result' = [result EXCEPT ![p] = NoResult]
    /\ tmp' = [tmp EXCEPT ![p] = IF pc[p] = "aw_write" THEN Torn(st[p]) ELSE tmp[p]]
    /\ wreck' = IF mode = "store"
                THEN IF pc[p] \in {"aw_write", "aw_replace"}
                     THEN [at |-> pc[p], target |-> target[p], prev |-> primary]
                     ELSE [at |-> "other", target |-> "primary", prev |-> primary]
                ELSE wreck
    /\ UNCHANGED <<auxVars, poolVars, mode, everStale, fileVars, pre, saved>>

\* The supervisor starts a new process in the place of a dead one.
Restart(p) ==
    /\ pc[p] = "crashed"
    /\ pc' = [pc EXCEPT ![p] = "idle"]
    /\ tmp' = [tmp EXCEPT ![p] = Missing]
    /\ pre' = [pre EXCEPT ![p] = NoPre]
    /\ UNCHANGED <<auxVars, poolVars, mode, op, lockVars, fileVars, st, phase, target, result, wreck, saved>>

(***************************************************************************)
(* Worker pool and task queue: the supervisor loop.                        *)
(*                                                                         *)
(* One coordinating process owns the worker-slot table, the pending list,  *)
(* the running map and the terminal-failure record; each of its operations *)
(* is one step.  Workers act on it only through their heartbeats and their *)
(* reported results.  The heartbeat lag of a running task is a relative    *)
(* clock of PoolTickSec seconds per tick.                                  *)
(***************************************************************************)
PoolTickSec == 900
MaxWorkers == 2
MaxTasks == 3
MaxAttempts == 2

SoftTimeoutSec == 600
HardTimeoutSec == 1800

Wids == 1..MaxWorkers
TaskIds == 1..MaxTasks

\* busy_task_id of an idle slot (None).
NoTask == 0

\* Lower value = more urgent.
Priority(t) == IF t = 2 THEN 1 ELSE 5

NewTask(t) == [id |-> t, priority |-> Priority(t), attempt |-> 1]

NoEntry ==
    [present |-> FALSE, task |-> NewTask(1), attempt |-> 0, hb_lag |-> 0,
     runtime |-> 0]

RunningEntry(task) ==
    [present |-> TRUE, task |-> task, attempt |-> task.attempt, hb_lag |-> 0,
     runtime |-> 0]

NoLast == [op |-> "none", id |-> NoTask, attempt |-> 0]

\* The heartbeat lag stops counting once it exceeds the hard timeout.
LagCap == (HardTimeoutSec \div PoolTickSec) + 1

\* The runtime (now - started_at) is only reported by status_text; it is
\* counted where a property reads it, and then stops counting once it exceeds
\* the hard timeout.
RuntimeCap == IF mode = "beat" THEN LagCap ELSE 0

\* The supervisor loop runs.
InPool == mode \in {"pool", "beat"}

\* status_text: the ids of running_dict, and the busy worker count.
running_ids == {t \in TaskIds : running[t].present}

busy_count == Cardinality({w \in Wids : workers[w] # NoTask})

queue_warning == running_ids # {} /\ busy_count = 0

pending_ids == {pending[i].id : i \in 1..Len(pending)}

\* The slots a task may be dispatched to.
IdleWids_any_slot == Wids

IdleWids == {w \in Wids : workers[w] = NoTask}

\* The slots that carry task t.
SlotsOf(t) == {w \in Wids : workers[w] = t}

\* The soft timeout: now - last_heartbeat_at exceeds soft_timeout_sec.
SoftTimedOut(t) ==
    running[t].present /\ running[t].hb_lag * PoolTickSec > SoftTimeoutSec

\* The hard timeout measured from started_at instead of last_heartbeat_at.
HardTimedOut_by_runtime(t) ==
    running[t].present /\ running[t].runtime * PoolTickSec > HardTimeoutSec

\* The hard timeout: now - last_heartbeat_at exceeds hard_timeout_sec.
HardTimedOut(t) ==
    running[t].present /\ running[t].hb_lag * PoolTickSec > HardTimeoutSec

\* dequeueNext in arrival order only.
NextIndex_fifo(q) == 1

\* dequeueNext: the most urgent pending task, ties broken by earliest enqueue.
NextIndex(q) ==
    CHOOSE i \in 1..Len(q) :
        \A j \in 1..Len(q) :
            \/ q[j].priority > q[i].priority
            \/ q[j].priority = q[i].priority /\ j >= i

RemoveAt(q, i) == SubSeq(q, 1, i - 1) \o SubSeq(q, i + 1, Len(q))

\* The maximum-attempt policy: a task that has used up its attempts is not
\* requeued.
MayRetry_unbounded(task) == TRUE

MayRetry(task) == task.attempt < MaxAttempts

\* The requeued task: the same task with attempt + 1.
Retried(task) == [task EXCEPT !.attempt = @ + 1]

\* enqueue(Task): a new task joins the end of the pending list, attempt 1.
enqueue(t) ==
    /\ InPool
    /\ t \notin enqueued
    /\ pending' = Append(pending, NewTask(t))
    /\ enqueued' = enqueued \cup {t}
    /\ last' = [op |-> "enqueue", id |-> t, attempt |-> 1]
    /\ UNCHANGED <<auxVars, baseVars, workers, running, terminal>>

\* The dispatcher: dequeueNext, then markRunning on an idle slot.
dispatch ==
    /\ InPool
    /\ pending # <<>>
    /\ IdleWids # {}
    /\ LET i == NextIndex(pending)
           task == pending[i]
       IN  /\ \E w \in IdleWids :
                workers' = [workers EXCEPT ![w] = task.id]
           /\ running' = [running EXCEPT ![task.id] = RunningEntry(task)]
           /\ pending' = RemoveAt(pending, i)
           /\ last' = [op |-> "dispatch", id |-> task.id, attempt |-> task.attempt]
    /\ UNCHANGED <<auxVars, baseVars, terminal, enqueued>>

\* The dispatcher with no idle slot: the dispatch is refused.
dispatch_refused ==
    /\ InPool
    /\ pending # <<>>
    /\ IdleWids = {}
    /\ LET task == pending[NextIndex(pending)]
       IN  last' = [op |-> "refused", id |-> task.id, attempt |-> task.attempt]
    /\ UNCHANGED <<auxVars, baseVars, workers, pending, running, terminal, enqueued>>

\* The worker executing t reports progress.
heartbeat(t) ==
    /\ InPool
    /\ running[t].present
    /\ running[t].hb_lag > 0
    /\ running' = [running EXCEPT ![t].hb_lag = 0]
    /\ UNCHANGED <<auxVars, baseVars, workers, pending, terminal, enqueued, last>>

\* The running entry of t is removed and its slot is cleared.
Collect(t) ==
    /\ running' = [running EXCEPT ![t] = NoEntry]
    /\ workers' = [w \in Wids |-> IF workers[w] = t THEN NoTask ELSE workers[w]]

\* The requeue-with-incremented-attempt path, bounded by the maximum-attempt
\* policy.
Requeue(task) ==
    IF MayRetry(task)
    THEN /\ pending' = Append(pending, Retried(task))
         /\ terminal' = terminal
    ELSE /\ pending' = pending
         /\ terminal' = terminal \cup {task.id}

\* markComplete(taskId): the collector takes the worker's result.
markComplete(t) ==
    /\ InPool
    /\ running[t].present
    /\ Collect(t)
    /\ last' = [op |-> "complete", id |-> t, attempt |-> running[t].attempt]
    /\ UNCHANGED <<auxVars, baseVars, pending, terminal, enqueued>>

\* markFailed(taskId): the collector takes the worker's failure.
markFailed(t) ==
    /\ InPool
    /\ running[t].present
    /\ Collect(t)
    /\ Requeue(running[t].task)
    /\ last' = [op |-> "fail", id |-> t, attempt |-> running[t].attempt]
    /\ UNCHANGED <<auxVars, baseVars, enqueued>>

\* Reclamation without removing the running entry.
reclaim_keeps_entry(t) ==
    /\ InPool
    /\ HardTimedOut(t)
    /\ workers' = [w \in Wids |-> IF workers[w] = t THEN NoTask ELSE workers[w]]
    /\ Requeue(running[t].task)
    /\ last' = [op |-> "reclaim", id |-> t, attempt |-> running[t].attempt]
    /\ UNCHANGED <<auxVars, baseVars, running, enqueued>>

\* The soft timeout of t is exceeded: an alert, nothing else.
soft_alert(t) ==
    /\ InPool
    /\ SoftTimedOut(t)
    /\ ~HardTimedOut(t)
    /\ last' = [op |-> "alert", id |-> t, attempt |-> running[t].attempt]
    /\ UNCHANGED <<auxVars, baseVars, workers, pending, running, terminal, enqueued>>

\* Hard-timeout reclamation of a stalled worker's slot.
reclaim(t) ==
    /\ InPool
    /\ HardTimedOut(t)
    /\ Collect(t)
    /\ Requeue(running[t].task)
    /\ last' = [op |-> "reclaim", id |-> t, attempt |-> running[t].attempt]
    /\ UNCHANGED <<auxVars, baseVars, enqueued>>

\* PoolTickSec seconds pass without a heartbeat.
PoolTick ==
    /\ InPool
    /\ \E t \in TaskIds : running[t].present /\ running[t].hb_lag < LagCap
    /\ running' = [t \in TaskIds |->
                     IF running[t].present
                     THEN [running[t] EXCEPT !.hb_lag = Min(@ + 1, LagCap),
                                             !.runtime = Min(@ + 1, RuntimeCap)]
                     ELSE running[t]]
    /\ UNCHANGED <<auxVars, baseVars, workers, pending, terminal, enqueued, last>>

\* No function call is under study.
NoInput == [fn |-> "none"]
NoOutput == [fn |-> "none"]

(***************************************************************************)
(* status_text: the report over the worker table and the running map.      *)
(***************************************************************************)
\* What getattr(w, 'busy_task_id', None) can yield: the attribute is absent,
\* None, an empty (falsy) id, or a task id.
BusyValues ==
    {[kind |-> "absent", id |-> NoTask], [kind |-> "none", id |-> NoTask],
     [kind |-> "empty", id |-> NoTask]}
        \cup {[kind |-> "id", id |-> t] : t \in TaskIds}

\* workers_dict: any table over some of the slots.
WorkerDicts == UNION {[ws -> BusyValues] : ws \in SUBSET Wids}

\* status_text's busy_count with the truth test of its busy list.
busy_count_of_truthy(workers_dict) ==
    Cardinality({w \in DOMAIN workers_dict : workers_dict[w].kind = "id"})

\* busy_count: the workers whose busy_task_id is not None.
busy_count_of(workers_dict) ==
    Cardinality({w \in DOMAIN workers_dict :
                    workers_dict[w].kind \notin {"absent", "none"}})

\* The lines of the report that depend on the worker table and the running
\* map: the counts, the busy list and the anomaly line.
status_text(workers_dict, running_dict) ==
    [fn |-> "status_text",
     workers |-> Cardinality(DOMAIN workers_dict),
     busy_count |-> busy_count_of(workers_dict),
     running |-> Cardinality(running_dict),
     busy |-> {w \in DOMAIN workers_dict : workers_dict[w].kind = "id"},
     queue_warning |-> running_dict # {} /\ busy_count_of(workers_dict) = 0]

status_text_call ==
    /\ mode = "status"
    /\ inp.fn = "status_text"
    /\ out = NoOutput
    /\ out' = status_text(inp.workers_dict, inp.running_dict)
    /\ UNCHANGED <<baseVars, poolVars, inp, llm, rot>>

(***************************************************************************)
(* model_breakdown: per-model usage from the lines of events.jsonl.        *)
(***************************************************************************)
MaxLines == 3

\* A numeric field, and a field float()/int() rejects.
Num(n) == [numeric |-> TRUE, val |-> n]
NonNum == [numeric |-> FALSE, val |-> 0]

\* The model names a record can carry; "" stands for a missing, null or
\* empty model.
EventModels == {"m1", "m2", ""}

\* A line of the log: blank, not valid JSON, valid JSON that is not an
\* object, or an object.
BlankLine ==
    [kind |-> "blank", type |-> "", model |-> "", prompt_tokens |-> Num(0)]
GarbageLine ==
    [kind |-> "garbage", type |-> "", model |-> "", prompt_tokens |-> Num(0)]
NonObjectLine ==
    [kind |-> "nonobject", type |-> "", model |-> "", prompt_tokens |-> Num(0)]
OtherEvent ==
    [kind |-> "object", type |-> "other", model |-> "", prompt_tokens |-> Num(0)]
UsageEvents ==
    [kind : {"object"}, type : {"llm_usage"}, model : EventModels,
     prompt_tokens : {Num(1), Num(2), NonNum}]

EventLines == {BlankLine, GarbageLine, NonObjectLine, OtherEvent} \cup UsageEvents

EventLogs == UNION {[1..n -> EventLines] : n \in 0..MaxLines}

\* model = event.get("model") or "unknown"
ModelKey(l) == IF l.model = "" THEN "unknown" ELSE l.model

BreakdownKeys == {"m1", "m2", "unknown"}

\* breakdown: calls = 0 stands for a model that has no entry.
EmptyBreakdown == [m \in BreakdownKeys |-> [calls |-> 0, prompt_tokens |-> 0]]

AddUsage(breakdown, l) ==
    [breakdown EXCEPT ![ModelKey(l)] =
        [calls |-> @.calls + 1,
         prompt_tokens |-> @.prompt_tokens + l.prompt_tokens.val]]

\* The loop over the lines, from line i on.  A blank line, a line json.loads
\* rejects, an event of another type and a record whose field float()/int()
\* rejects are passed over (continue).  A line that is valid JSON but not an
\* object has no .get: the AttributeError is not among the exceptions caught
\* inside the loop, the enclosing handler logs it and the loop is over.
RECURSIVE model_breakdown_from(_, _, _)
model_breakdown_from(lines, i, breakdown) ==
    IF i > Len(lines) THEN breakdown
    ELSE CASE lines[i].kind \in {"blank", "garbage"} ->
                model_breakdown_from(lines, i + 1, breakdown)
           [] lines[i].kind = "nonobject" -> breakdown
           [] OTHER ->
                IF lines[i].type # "llm_usage" \/ ~lines[i].prompt_tokens.numeric
                THEN model_breakdown_from(lines, i + 1, breakdown)
                ELSE model_breakdown_from(lines, i + 1,
                                          AddUsage(breakdown, lines[i]))

model_breakdown(lines) ==
    [fn |-> "model_breakdown",
     breakdown |-> model_breakdown_from(lines, 1, EmptyBreakdown)]

model_breakdown_call ==
    /\ mode = "events"
    /\ inp.fn = "model_breakdown"
    /\ out = NoOutput
    /\ out' = model_breakdown(inp.lines)
    /\ UNCHANGED <<baseVars, poolVars, inp, llm, rot>>

(***************************************************************************)
(* rotate_chat_log_if_needed.  A file is a sequence of records; its size   *)
(* is counted in records.                                                  *)
(***************************************************************************)
MaxChatLines == 2

ChatRecords == {"a", "b"}

NoFile == [exists |-> FALSE, data |-> <<>>]
File(data) == [exists |-> TRUE, data |-> data]

ChatLogs ==
    {NoFile} \cup {File(d) : d \in UNION {[1..n -> ChatRecords] : n \in 0..MaxChatLines}}

\* The archive directory: the files chat_<ts>.jsonl, for the seconds ts at
\* which a rotation can run.
ArchiveStamps == {"ts1", "ts2"}
Archives == [ArchiveStamps -> {NoFile, File(<<"b">>)}]

\* chat.stat().st_size
st_size(file) == Len(file.data)

rotate_chat_log_if_needed(chat, archive, max_bytes, ts) ==
    IF ~chat.exists THEN [fn |-> "rotate", chat |-> chat, archive |-> archive]
    ELSE IF st_size(chat) < max_bytes
         THEN [fn |-> "rotate", chat |-> chat, archive |-> archive]
         ELSE [fn |-> "rotate",
               chat |-> File(<<>>),
               archive |-> [archive EXCEPT ![ts] = File(chat.data)]]

rotate_chat_log_if_needed_call ==
    /\ mode = "rotate"
    /\ inp.fn = "rotate"
    /\ out = NoOutput
    /\ out' = rotate_chat_log_if_needed(inp.chat, inp.archive, inp.max_bytes, inp.ts)
    /\ UNCHANGED <<baseVars, poolVars, inp, llm, rot>>

(***************************************************************************)
(* rotate_chat_log_if_needed running next to the writers of the chat log.  *)
(* Every filesystem call of a rotation is a step; a writer appends one     *)
(* line in one step.  Lines are numbered in the order they are appended.   *)
(***************************************************************************)
MaxAppends == 3

Rotators == {"r1", "r2"}

\* The rotation threshold, counted in lines.
Thresholds == {1, 2}

Rotation(max_bytes, ts) ==
    [chat |-> NoFile,
     archive |-> [t \in ArchiveStamps |-> NoFile],
     max_bytes |-> max_bytes,
     now |-> ts,
     appended |-> 0,
     pc |-> [r \in Rotators |-> "idle"],
     ts |-> [r \in Rotators |-> ts],
     data |-> [r \in Rotators |-> <<>>]]

NoRotation == Rotation(1, "ts1")

\* A writer appends line number appended + 1, creating the log if needed.
append_jsonl ==
    /\ mode = "chat"
    /\ rot.appended < MaxAppends
    /\ rot' = [rot EXCEPT !.appended = @ + 1,
                          !.chat = File(Append(rot.chat.data, rot.appended + 1))]
    /\ UNCHANGED <<baseVars, poolVars, inp, out, llm>>

\* The clock reaches the next second.
NextSecond ==
    /\ mode = "chat"
    /\ rot.now = "ts1"
    /\ rot' = [rot EXCEPT !.now = "ts2"]
    /\ UNCHANGED <<baseVars, poolVars, inp, out, llm>>

rotate_call(r) ==
    /\ mode = "chat"
    /\ rot.pc[r] = "idle"
    /\ rot' = [rot EXCEPT !.pc[r] = "exists", !.data[r] = <<>>]
    /\ UNCHANGED <<baseVars, poolVars, inp, out, llm>>

\* if not chat.exists(): return
rotate_exists(r) ==
    /\ rot.pc[r] = "exists"
    /\ rot' = [rot EXCEPT !.pc[r] = IF rot.chat.exists THEN "stat" ELSE "idle"]
    /\ UNCHANGED <<baseVars, poolVars, inp, out, llm>>

\* if chat.stat().st_size < max_bytes: return; then ts = now().
rotate_stat(r) ==
    /\ rot.pc[r] = "stat"
    /\ rot' = IF st_size(rot.chat) < rot.max_bytes
              THEN [rot EXCEPT !.pc[r] = "idle"]
              ELSE [rot EXCEPT !.pc[r] = "read", !.ts[r] = rot.now]
    /\ UNCHANGED <<baseVars, poolVars, inp, out, llm>>

\* chat.read_bytes()
rotate_read(r) ==
    /\ rot.pc[r] = "read"
    /\ rot' = [rot EXCEPT !.pc[r] = "write", !.data[r] = rot.chat.data]
    /\ UNCHANGED <<baseVars, poolVars, inp, out, llm>>

\* archive_path.write_bytes(...): the file is created or overwritten.
rotate_write(r) ==
    /\ rot.pc[r] = "write"
    /\ rot' = [rot EXCEPT !.pc[r] = "truncate",
                          !.archive[rot.ts[r]] = File(rot.data[r])]
    /\ UNCHANGED <<baseVars, poolVars, inp, out, llm>>

\* chat.write_text("")
rotate_truncate(r) ==
    /\ rot.pc[r] = "truncate"
    /\ rot' = [rot EXCEPT !.pc[r] = "idle", !.chat = File(<<>>), !.data[r] = <<>>]
    /\ UNCHANGED <<baseVars, poolVars, inp, out, llm>>

(***************************************************************************)
(* load_runtime_config: the configuration file as a JSON object with       *)
(* string fields.                                                          *)
(***************************************************************************)
\* A key the object does not have.
Absent == "<absent>"

\* Field values: absent, empty, blank, or some text.
FieldValues == {Absent, "", " ", "v"}

\* vcs_platform values, among them spellings that differ in case or spacing.
PlatformValues == {Absent, "", "github", "GitHub", "gitea", "git", " git ", "svn"}

ConfigKeys ==
    {"telegram_bot_token", "github_token", "github_user", "github_repo",
     "gitea_base_url", "git_remote_url"}

ConfigData ==
    {f \in [ConfigKeys \cup {"vcs_platform"} -> FieldValues \cup PlatformValues] :
        /\ f["vcs_platform"] \in PlatformValues
        /\ \A k \in ConfigKeys : f[k] \in FieldValues}

\* data.get(key, default)
get(data, key, default) == IF data[key] = Absent THEN default ELSE data[key]

\* str.strip() and str.lower() on the values above.
strip(v) ==
    CASE v = " " -> "" [] v = " git " -> "git" [] v = " Hybrid " -> "Hybrid"
      [] OTHER -> v
lower(v) ==
    CASE v = "GitHub" -> "github" [] v = "Hybrid" -> "hybrid" [] OTHER -> v

\* _required without the strip.
required_unstripped(data, key) ==
    [raised |-> get(data, key, "") = "", val |-> get(data, key, "")]

\* _required(data, key): the stripped value, or AssertionError when it is
\* empty.
required(data, key) ==
    [raised |-> strip(get(data, key, "")) = "", val |-> strip(get(data, key, ""))]

AssertionError == [fn |-> "load_runtime_config", raised |-> "AssertionError",
                   vcs_platform |-> ""]

RuntimeConfig(vcs_platform) ==
    [fn |-> "load_runtime_config", raised |-> "none", vcs_platform |-> vcs_platform]

load_runtime_config(data) ==
    LET low == lower(strip(get(data, "vcs_platform", "github")))
        vcs_platform == IF low = "" THEN "github" ELSE low
        github_token == strip(get(data, "github_token", ""))
        github_user == strip(get(data, "github_user", ""))
        github_repo == strip(get(data, "github_repo", ""))
        gitea_base_url == strip(get(data, "gitea_base_url", ""))
        git_remote_url == strip(get(data, "git_remote_url", ""))
    IN  IF vcs_platform \notin {"github", "gitea", "git"} THEN AssertionError
        ELSE IF /\ vcs_platform = "github"
                /\ \/ github_token = "" /\ required(data, "github_token").raised
                   \/ github_user = "" /\ required(data, "github_user").raised
                   \/ github_repo = "" /\ required(data, "github_repo").raised
        THEN AssertionError
        ELSE IF /\ vcs_platform = "gitea"
                /\ \/ github_user = "" /\ required(data, "github_user").raised
                   \/ github_repo = "" /\ required(data, "github_repo").raised
                   \/ gitea_base_url = "" /\ git_remote_url = ""
        THEN AssertionError
        ELSE IF required(data, "telegram_bot_token").raised THEN AssertionError
        ELSE RuntimeConfig(vcs_platform)

load_runtime_config_call ==
    /\ mode = "config"
    /\ inp.fn = "load_runtime_config"
    /\ out = NoOutput
    /\ out' = load_runtime_config(inp.data)
    /\ UNCHANGED <<baseVars, poolVars, inp, llm, rot>>

\* soft_timeout_sec and hard_timeout_sec of the configuration data: absent,
\* null, not a number, and integers below, at and above the two minimums.
TimeoutValues ==
    {[kind |-> "absent", val |-> 0], [kind |-> "null", val |-> 0],
     [kind |-> "text", val |-> 0]}
    \cup [kind : {"int"}, val : {-5, 30, 60, 100, 120, 600, 1800, 3600}]

TimeoutKeys == {"soft_timeout_sec", "hard_timeout_sec"}

\* A configuration that passes the checks of the required keys, and one that
\* does not.
GithubData ==
    [k \in ConfigKeys \cup {"vcs_platform"} |->
        IF k \in {"gitea_base_url", "git_remote_url", "vcs_platform"} THEN Absent
        ELSE "v"]
NoTokenData == [GithubData EXCEPT !["telegram_bot_token"] = " "]

Max(a, b) == IF a > b THEN a ELSE b

\* _int(data, key, default, minimum): int() of the value, the default when
\* the key is absent or int() raises, and no less than the minimum.
int(ints, key, default, minimum) ==
    LET val == IF ints[key].kind = "int" THEN ints[key].val ELSE default
    IN  Max(minimum, val)

\* load_runtime_config with the two timeouts of the RuntimeConfig it returns.
load_runtime_config_timeouts(data, ints) ==
    LET cfg == load_runtime_config(data)
    IN  IF cfg.raised # "none" THEN cfg
        ELSE [fn |-> cfg.fn, raised |-> cfg.raised, vcs_platform |-> cfg.vcs_platform,
              soft_timeout_sec |-> int(ints, "soft_timeout_sec", SoftTimeoutSec, 60),
              hard_timeout_sec |-> int(ints, "hard_timeout_sec", HardTimeoutSec, 120)]

load_runtime_config_timeouts_call ==
    /\ mode = "timeouts"
    /\ inp.fn = "load_runtime_config"
    /\ out = NoOutput
    /\ out' = load_runtime_config_timeouts(inp.data, inp.ints)
    /\ UNCHANGED <<baseVars, poolVars, inp, llm, rot>>

(***************************************************************************)
(* ensure_state_defaults applied to a document on its own.                 *)
(***************************************************************************)
\* Keys of the argument: required ones, deprecated ones, one the schema does
\* not know.
ArgKeys == {"owner_id", "session_id", "tg_offset", "approvals", "idle_stats", "custom"}

\* JSON values as their text; null is a value like any other.
ArgValues == {"null", "7"}

ArgDocs == UNION {[ks -> ArgValues] : ks \in SUBSET ArgKeys}

ensure_state_defaults_call ==
    /\ mode = "defaults"
    /\ inp.fn = "ensure_state_defaults"
    /\ out = NoOutput
    /\ out' = [fn |-> "ensure_state_defaults",
               st |-> ensure_state_defaults(inp.st, inp.ts, inp.uid)]
    /\ UNCHANGED <<baseVars, poolVars, inp, llm, rot>>

(***************************************************************************)
(* LLMClient (ouroboros/llm.py): one client, one chat call at a time.      *)
(* Sending an HTTP request and receiving its response are separate steps;  *)
(* reqs is the list of the requests of the current chat call.              *)
(***************************************************************************)
DefaultNumCtx == 32768
MinNumCtx == 1024

LlmModels == {"m1", "m2"}

\* OLLAMA_ENDPOINT_STRATEGY: unset, the two strategies, a spelling that
\* differs in case and spacing, an unrecognized value.
StrategyEnv == {Absent, "single_v1", "hybrid", " Hybrid ", "other"}

\* OLLAMA_NUM_CTX: unset, not a number, below the minimum, above it.
NumCtxEnv ==
    {[kind |-> "unset", val |-> 0], [kind |-> "text", val |-> 0],
     [kind |-> "int", val |-> 512], [kind |-> "int", val |-> 8192]}

\* The tools argument of chat: None, an empty list, a list of tools.
ToolArgs == {"none", "empty", "some"}

read_int_env(e, default, min_value) ==
    LET value == IF e.kind = "int" THEN e.val ELSE default
    IN  IF value > min_value THEN value ELSE min_value

endpoint_strategy(e) ==
    LET strategy == lower(strip(get([k \in {"s"} |-> e], "s", "single_v1")))
    IN  IF strategy \in {"single_v1", "hybrid"} THEN strategy ELSE "single_v1"

\* LLMClient.__init__
LLMClient(env_strategy, env_num_ctx) ==
    [env_strategy |-> env_strategy,
     endpoint_strategy |-> endpoint_strategy(env_strategy),
     num_ctx |-> read_int_env(env_num_ctx, DefaultNumCtx, MinNumCtx),
     warmed_models |-> {},
     pc |-> "idle", entry |-> "chat", model |-> "m1", tools |-> "none",
     cold |-> FALSE, reqs |-> <<>>, content |-> <<>>, result |-> "none"]

NoClient == LLMClient(Absent, [kind |-> "unset", val |-> 0])

\* An HTTP request as _post_json sends it.
Request(endpoint, payload, model, num_ctx, tools) ==
    [endpoint |-> endpoint, payload |-> payload, model |-> model,
     num_ctx |-> num_ctx, tools |-> tools, status |-> "sent"]

warmup_payload(model) ==
    Request("/api/chat", "warmup", model, llm.num_ctx, FALSE)

\* The latest request has been answered.
Answered(status) ==
    [llm.reqs EXCEPT ![Len(llm.reqs)].status = status]

\* ensure_model_ready that takes every model as warmed.
NeedsWarmup_never(model) == FALSE

\* ensure_model_ready that does not consult _warmed_models.
NeedsWarmup_always(model) == TRUE

\* ensure_model_ready: the model is not in _warmed_models.
NeedsWarmup(model) == model \notin llm.warmed_models

\* The text of a reply, as the pieces _try_parse_json_toolcall tells apart:
\* prose without braces, a JSON object with name and arguments, one with
\* function_name and arguments, another JSON object, braces that are not
\* JSON.
MaxSegments == 2
Segments == {"prose", "call_name", "call_function_name", "object", "braces"}
Texts == UNION {[1..n -> Segments] : n \in 0..MaxSegments}

\* text[start:end+1], from the first '{' to the last '}'; empty when the
\* text has no braces.
BraceSpan(text) ==
    LET braced == {i \in 1..Len(text) : text[i] # "prose"}
    IN  IF braced = {} THEN <<>>
        ELSE LET start == CHOOSE i \in braced : \A j \in braced : i <= j
                 end == CHOOSE i \in braced : \A j \in braced : i >= j
             IN  SubSeq(text, start, end)

\* json.loads accepts the span when it is one JSON object and nothing else.
json_loads_ok(span) == Len(span) = 1 /\ span[1] \in Segments \ {"prose", "braces"}

\* Variant: only the name form is recognised.
try_parse_json_toolcall_name_only(text) ==
    LET span == BraceSpan(text)
    IN  span # <<>> /\ json_loads_ok(span) /\ span[1] = "call_name"

\* _try_parse_json_toolcall: whether it returns a tool call.
try_parse_json_toolcall(text) ==
    LET span == BraceSpan(text)
    IN  /\ span # <<>>
        /\ json_loads_ok(span)
        /\ span[1] \in {"call_name", "call_function_name"}

\* The except clause of chat that falls back whatever the request was.
NeedsFallback_always(tools) == TRUE

\* `if tools:` in the except clause of chat.
NeedsFallback(tools) == tools = "some"

\* chat's use_v1 without the strategy.
use_v1_tools_only(tools) == tools = "some"

\* use_v1 = bool(tools) or self._endpoint_strategy == "single_v1"
use_v1(tools) == tools = "some" \/ llm.endpoint_strategy = "single_v1"

chat_call(model, tools) ==
    /\ mode = "llm"
    /\ llm.pc = "idle"
    /\ llm' = [llm EXCEPT !.pc = "ensure", !.entry = "chat",
                          !.model = model, !.tools = tools,
                          !.cold = model \notin llm.warmed_models,
                          !.reqs = <<>>, !.content = <<>>, !.result = "none"]
    /\ UNCHANGED <<baseVars, poolVars, inp, out, rot>>

\* warmup(model), the older entry point: ensure_model_ready with every
\* exception logged and swallowed.
warmup_call(model) ==
    /\ mode = "llm"
    /\ llm.pc = "idle"
    /\ llm' = [llm EXCEPT !.pc = "ensure", !.entry = "warmup",
                          !.model = model, !.tools = "none",
                          !.cold = model \notin llm.warmed_models,
                          !.reqs = <<>>, !.content = <<>>, !.result = "none"]
    /\ UNCHANGED <<baseVars, poolVars, inp, out, rot>>

\* Where ensure_model_ready returns to: chat goes on, warmup returns.
AfterReady == IF llm.entry = "chat" THEN "primary" ELSE "idle"

\* What an exception of ensure_model_ready becomes for the caller.
ReadyError(err) == IF llm.entry = "chat" THEN err ELSE "none"

\* ensure_model_ready up to its POST.
ensure_model_ready ==
    /\ llm.pc = "ensure"
    /\ llm' = IF NeedsWarmup(llm.model)
              THEN [llm EXCEPT !.pc = "warmup",
                               !.reqs = Append(@, warmup_payload(llm.model))]
              ELSE [llm EXCEPT !.pc = AfterReady]
    /\ UNCHANGED <<baseVars, poolVars, inp, out, rot>>

\* The warmup POST returns and the model is recorded as warmed, or it raises,
\* or it returns a prompt_eval_count that int() rejects.
ensure_model_ready_response ==
    /\ llm.pc = "warmup"
    /\ \/ llm' = [llm EXCEPT !.pc = AfterReady, !.reqs = Answered("ok"),
                             !.warmed_models = @ \cup {llm.model}]
       \/ llm' = [llm EXCEPT !.pc = "idle", !.reqs = Answered("fail"),
                             !.result = ReadyError("LLMTransportError")]
       \/ llm' = [llm EXCEPT !.pc = "idle", !.reqs = Answered("invalid"),
                             !.result = ReadyError("ValueError")]
    /\ UNCHANGED <<baseVars, poolVars, inp, out, rot>>

\* chat chooses its primary endpoint and sends the completion request.
chat_primary ==
    /\ llm.pc = "primary"
    /\ llm' = IF use_v1(llm.tools)
              THEN [llm EXCEPT !.pc = "v1",
                               !.reqs = Append(@, Request("/v1/chat/completions",
                                           "chat", llm.model, llm.num_ctx,
                                           llm.tools = "some"))]
              ELSE [llm EXCEPT !.pc = "native",
                               !.reqs = Append(@, Request("/api/chat", "chat",
                                           llm.model, llm.num_ctx, FALSE))]
    /\ UNCHANGED <<baseVars, poolVars, inp, out, rot>>

\* _chat_v1 returns, or raises a transport or protocol error; with tools an
\* error leads to the fallback, without tools it propagates.
chat_v1_response ==
    /\ llm.pc = "v1"
    /\ \/ llm' = [llm EXCEPT !.pc = "idle", !.reqs = Answered("ok"),
                             !.result = "message"]
       \/ \E err \in {"LLMTransportError", "LLMProtocolError"} :
            llm' = IF NeedsFallback(llm.tools)
                   THEN [llm EXCEPT !.pc = "fallback", !.reqs = Answered("fail")]
                   ELSE [llm EXCEPT !.pc = "idle", !.reqs = Answered("fail"),
                                    !.result = err]
    /\ UNCHANGED <<baseVars, poolVars, inp, out, rot>>

\* The fallback: _chat_native without tools.
chat_fallback ==
    /\ llm.pc = "fallback"
    /\ llm' = [llm EXCEPT !.pc = "fallback_wait",
                          !.reqs = Append(@, Request("/api/chat", "chat",
                                      llm.model, llm.num_ctx, FALSE))]
    /\ UNCHANGED <<baseVars, poolVars, inp, out, rot>>

\* The fallback returns a message, whose text is searched for a JSON tool
\* call, or raises.
chat_fallback_response ==
    /\ llm.pc = "fallback_wait"
    /\ \/ \E text \in Texts :
            llm' = [llm EXCEPT !.pc = "idle", !.reqs = Answered("ok"),
                               !.content = text,
                               !.result = IF try_parse_json_toolcall(text)
                                          THEN "message_tool_calls"
                                          ELSE "message"]
       \/ llm' = [llm EXCEPT !.pc = "idle", !.reqs = Answered("fail"),
                             !.result = "LLMError"]
    /\ UNCHANGED <<baseVars, poolVars, inp, out, rot>>

\* _chat_native as the primary path returns or raises.
chat_native_response ==
    /\ llm.pc = "native"
    /\ \/ llm' = [llm EXCEPT !.pc = "idle", !.reqs = Answered("ok"),
                             !.result = "message"]
       \/ llm' = [llm EXCEPT !.pc = "idle", !.reqs = Answered("fail"),
                             !.result = "LLMTransportError"]
    /\ UNCHANGED <<baseVars, poolVars, inp, out, rot>>

(***************************************************************************)
(* Specifications.                                                         *)
(***************************************************************************)
InitCalls ==
    /\ lock = [l \in Locks |-> NoLock]
    /\ everStale = [l \in Locks |-> FALSE]
    /\ op = [p \in Procs |-> "none"]
    /\ acq = [p \in Procs |-> "none"]
    /\ elapsed = [p \in Procs |-> 0]
    /\ seen = [p \in Procs |-> "free"]
    /\ quiet = [p \in Procs |-> TRUE]
    /\ slept = [p \in Procs |-> FALSE]
    /\ pre = [p \in Procs |-> NoPre]
    /\ st = [p \in Procs |-> EmptyDoc]
    /\ phase = [p \in Procs |-> "load"]
    /\ target = [p \in Procs |-> "primary"]
    /\ tmp = [p \in Procs |-> Missing]
    /\ result = [p \in Procs |-> NoResult]
    /\ wreck = NoWreck
    /\ saved = NoSaved

\* An idle pool and an empty queue; the task ids in `used` are spent.
InitQueue(used) ==
    /\ workers = [w \in Wids |-> NoTask]
    /\ pending = <<>>
    /\ running = [t \in TaskIds |-> NoEntry]
    /\ terminal = {}
    /\ enqueued = used
    /\ last = NoLast

InitAux ==
    /\ inp = NoInput
    /\ out = NoOutput
    /\ llm = NoClient
    /\ rot = NoRotation

\* The state of everything but the function under study.
InitRest ==
    /\ pc = [p \in Procs |-> "off"]
    /\ primary = Missing
    /\ lastGood = Missing
    /\ InitCalls
    /\ InitQueue({})

InitLocals ==
    /\ InitCalls
    /\ InitQueue({})
    /\ InitAux

\* Two processes contend for the state lock, or for the git lock; the state
\* files do not exist yet.
Init ==
    /\ mode \in {"state", "git"}
    /\ pc = [p \in Procs |-> "idle"]
    /\ primary = Missing
    /\ lastGood = Missing
    /\ InitLocals

\* The steps of a call that loads, after its start, without faults.
LoadBody(p) ==
    \/ acquire_file_lock_try(p)
    \/ acquire_file_lock_stat(p)
    \/ acquire_file_lock_unlink(p)
    \/ acquire_file_lock_sleep(p)
    \/ acquire_return(p)
    \/ load_state_unlocked_primary(p)
    \/ load_state_unlocked_lastgood(p)
    \/ atomic_write_text_write(p)
    \/ atomic_write_text_replace(p)
    \/ release_file_lock(p)
    \/ Finish(p)

\* load_state and init_state, without faults.
LoadStep(p) ==
    \/ load_state_call(p)
    \/ init_state_call(p)
    \/ LoadBody(p)

FaultStep(p) ==
    \/ atomic_write_text_raise(p)
    \/ Crash(p)
    \/ Restart(p)

StateStep(p) ==
    \/ save_state_call(p)
    \/ LoadStep(p)
    \/ FaultStep(p)

GitStep(p) ==
    \/ acquire_git_lock_call(p)
    \/ acquire_git_lock_try(p)
    \/ acquire_git_lock_stat(p)
    \/ acquire_git_lock_unlink(p)
    \/ acquire_git_lock_open(p)
    \/ acquire_git_lock_sleep(p)
    \/ release_git_lock(p)

Next ==
    \/ \E p \in Procs : StateStep(p)
    \/ \E p \in Procs : GitStep(p)
    \/ Tick

Spec == Init /\ [][Next]_vars

\* The steps of an acquire call of p, its return to the caller included.
AcquireStep(p) ==
    \/ acquire_file_lock_try(p)
    \/ acquire_file_lock_stat(p)
    \/ acquire_file_lock_unlink(p)
    \/ acquire_file_lock_sleep(p)
    \/ acquire_git_lock_try(p)
    \/ acquire_git_lock_stat(p)
    \/ acquire_git_lock_unlink(p)
    \/ acquire_git_lock_open(p)
    \/ acquire_git_lock_sleep(p)
    \/ acquire_return(p)

\* The steps of load_state, save_state and init_state under the lock, when
\* the state file holds a document.
BodyStep(p) ==
    \/ load_state_unlocked_primary(p)
    \/ atomic_write_text_write(p)
    \/ atomic_write_text_replace(p)
    \/ release_file_lock(p)
    \/ Finish(p)

\* A back-off sleep of some process ends.
Sleep ==
    \E p \in Procs : acquire_file_lock_sleep(p) \/ acquire_git_lock_sleep(p)

\* A process inside an acquire call keeps executing it, and p1 keeps
\* executing the rest of its call as well.  Nothing obliges p2 to go on once
\* it has a lock, nor a process to start a call, nor to die.  time.sleep takes
\* time: sleeps without end let the clock advance without end.
Fairness ==
    /\ \A p \in Procs : WF_vars(AcquireStep(p))
    /\ WF_vars(BodyStep("p1"))
    /\ (<>[][~Sleep]_vars) \/ ([]<><<Tick>>_vars)

\* p1 calls load_state, save_state, init_state or acquire_git_lock while p2,
\* which loads or takes the git lock, may keep its lock for ever or die with
\* it; the state file holds a document.
InitWait ==
    /\ mode \in {"wait", "wait_git"}
    /\ pc = [p \in Procs |-> "idle"]
    /\ primary = json_dumps(FullDoc)
    /\ lastGood = json_dumps(FullDoc)
    /\ InitLocals

NextWait ==
    \/ \E p \in Procs : load_state_call(p)
    \/ save_state_call("p1")
    \/ init_state_call("p1")
    \/ \E p \in Procs : AcquireStep(p)
    \/ \E p \in Procs : BodyStep(p)
    \/ \E p \in Procs : acquire_git_lock_call(p) \/ release_git_lock(p)
    \/ \E p \in Procs : Crash(p)
    \/ Tick

SpecWait == InitWait /\ [][NextWait]_vars /\ Fairness

\* One process at a time works on the state files, which start in any
\* condition; it may crash and be replaced.
InitStore ==
    /\ mode = "store"
    /\ pc = [p \in Procs |-> IF p = "p1" THEN "idle" ELSE "off"]
    /\ primary \in DiskContents
    /\ lastGood \in DiskContents
    /\ InitLocals

NextStore ==
    \/ \E p \in Procs : StateStep(p)
    \/ Tick

SpecStore == InitStore /\ [][NextStore]_vars

\* One process at a time on a new installation: no state file exists yet, and
\* the process may crash and be replaced.
InitPair ==
    /\ mode = "pair"
    /\ pc = [p \in Procs |-> IF p = "p1" THEN "idle" ELSE "off"]
    /\ primary = Missing
    /\ lastGood = Missing
    /\ InitLocals

SpecPair == InitPair /\ [][NextStore]_vars

\* Two processes start on a new installation (no state files yet) and only
\* load: load_state and init_state, with crashes and write failures.
InitSession ==
    /\ mode = "session"
    /\ pc = [p \in Procs |-> "idle"]
    /\ primary = Missing
    /\ lastGood = Missing
    /\ InitLocals

NextSession ==
    \/ \E p \in Procs : LoadStep(p)
    \/ \E p \in Procs : FaultStep(p)
    \/ Tick

SpecSession == InitSession /\ [][NextSession]_vars

\* Two processes load and save concurrently, without faults.
InitOrder ==
    /\ mode = "order"
    /\ pc = [p \in Procs |-> "idle"]
    /\ primary = Missing
    /\ lastGood = Missing
    /\ InitLocals

NextOrder ==
    \/ \E p \in Procs : save_state_call(p)
    \/ \E p \in Procs : LoadStep(p)
    \/ Tick

SpecOrder == InitOrder /\ [][NextOrder]_vars

\* The supervisor loop over an empty queue and an idle pool.
InitPool ==
    /\ mode = "pool"
    /\ pc = [p \in Procs |-> "off"]
    /\ primary = Missing
    /\ lastGood = Missing
    /\ InitLocals

NextPool ==
    \/ \E t \in TaskIds : enqueue(t)
    \/ dispatch
    \/ dispatch_refused
    \/ \E t \in TaskIds : heartbeat(t)
    \/ \E t \in TaskIds : markComplete(t)
    \/ \E t \in TaskIds : markFailed(t)
    \/ \E t \in TaskIds : soft_alert(t)
    \/ \E t \in TaskIds : reclaim(t)
    \/ PoolTick

SpecPool == InitPool /\ [][NextPool]_vars

\* The supervisor loop late in a queue epoch, with the runtime of the running
\* tasks observed: three task ids are still unused, the tasks of all the
\* others have completed.
InitBeat ==
    /\ mode = "beat"
    /\ pc = [p \in Procs |-> "off"]
    /\ primary = Missing
    /\ lastGood = Missing
    /\ InitCalls
    /\ InitQueue(TaskIds \ {1, 2, 3})
    /\ InitAux

SpecBeat == InitBeat /\ [][NextPool]_vars


\* One process produces status reports; the state files start in any
\* condition, and a crashed process may have left its lock file behind.
InitReport ==
    /\ mode = "report"
    /\ pc = [p \in Procs |-> IF p = "p1" THEN "idle" ELSE "off"]
    /\ primary \in DiskContents
    /\ lastGood \in DiskContents
    /\ lock \in [Locks -> {NoLock, [NewLock("p2") EXCEPT !.owner = "dead"]}]
    /\ lock["git"] = NoLock
    /\ everStale = [l \in Locks |-> FALSE]
    /\ op = [p \in Procs |-> "none"]
    /\ acq = [p \in Procs |-> "none"]
    /\ elapsed = [p \in Procs |-> 0]
    /\ seen = [p \in Procs |-> "free"]
    /\ quiet = [p \in Procs |-> TRUE]
    /\ slept = [p \in Procs |-> FALSE]
    /\ pre = [p \in Procs |-> NoPre]
    /\ st = [p \in Procs |-> EmptyDoc]
    /\ phase = [p \in Procs |-> "load"]
    /\ target = [p \in Procs |-> "primary"]
    /\ tmp = [p \in Procs |-> Missing]
    /\ result = [p \in Procs |-> NoResult]
    /\ wreck = NoWreck
    /\ saved = NoSaved
    /\ InitQueue({})
    /\ InitAux

NextReport ==
    \/ \E p \in Procs : status_text_load_state(p)
    \/ \E p \in Procs : LoadBody(p)
    \/ Tick

SpecReport == InitReport /\ [][NextReport]_vars

\* status_text over every worker table and running map.
InitStatus ==
    /\ mode = "status"
    /\ inp \in [fn : {"status_text"}, workers_dict : WorkerDicts,
                running_dict : SUBSET TaskIds]
    /\ out = NoOutput
    /\ llm = NoClient
    /\ rot = NoRotation
    /\ InitRest

NextStatus == status_text_call

SpecStatus == InitStatus /\ [][NextStatus]_vars

\* model_breakdown over every event log of up to MaxLines lines.
InitEvents ==
    /\ mode = "events"
    /\ inp \in [fn : {"model_breakdown"}, lines : EventLogs]
    /\ out = NoOutput
    /\ llm = NoClient
    /\ rot = NoRotation
    /\ InitRest

NextEvents == model_breakdown_call

SpecEvents == InitEvents /\ [][NextEvents]_vars

\* rotate_chat_log_if_needed over every chat log, archive directory and
\* threshold.
InitRotate ==
    /\ mode = "rotate"
    /\ inp \in [fn : {"rotate"}, chat : ChatLogs, archive : Archives,
                max_bytes : 0..(MaxChatLines + 1), ts : ArchiveStamps]
    /\ out = NoOutput
    /\ llm = NoClient
    /\ rot = NoRotation
    /\ InitRest

NextRotate == rotate_chat_log_if_needed_call

SpecRotate == InitRotate /\ [][NextRotate]_vars

\* load_runtime_config over every configuration object.
InitConfig ==
    /\ mode = "config"
    /\ inp \in [fn : {"load_runtime_config"}, data : ConfigData]
    /\ out = NoOutput
    /\ llm = NoClient
    /\ rot = NoRotation
    /\ InitRest

NextConfig == load_runtime_config_call

SpecConfig == InitConfig /\ [][NextConfig]_vars

\* load_runtime_config on configuration data with timeouts.
InitTimeouts ==
    /\ mode = "timeouts"
    /\ inp \in [fn : {"load_runtime_config"}, data : {GithubData, NoTokenData},
                ints : [TimeoutKeys -> TimeoutValues]]
    /\ out = NoOutput
    /\ llm = NoClient
    /\ rot = NoRotation
    /\ InitRest

NextTimeouts == load_runtime_config_timeouts_call

SpecTimeouts == InitTimeouts /\ [][NextTimeouts]_vars

\* Writers append to the chat log while rotations run.
InitChat ==
    /\ mode = "chat"
    /\ rot \in {Rotation(m, "ts1") : m \in Thresholds}
    /\ inp = NoInput
    /\ out = NoOutput
    /\ llm = NoClient
    /\ InitRest

NextChat ==
    \/ append_jsonl
    \/ NextSecond
    \/ \E r \in Rotators :
          \/ rotate_call(r)
          \/ rotate_exists(r)
          \/ rotate_stat(r)
          \/ rotate_read(r)
          \/ rotate_write(r)
          \/ rotate_truncate(r)

SpecChat == InitChat /\ [][NextChat]_vars

\* ensure_state_defaults over every argument document.
InitDefaults ==
    /\ mode = "defaults"
    /\ inp \in [fn : {"ensure_state_defaults"}, st : ArgDocs,
                ts : Timestamps, uid : Uuids]
    /\ out = NoOutput
    /\ llm = NoClient
    /\ rot = NoRotation
    /\ InitRest

NextDefaults == ensure_state_defaults_call

SpecDefaults == InitDefaults /\ [][NextDefaults]_vars

\* One LLMClient, created under any environment, serves chat calls.
InitLlm ==
    /\ mode = "llm"
    /\ llm \in {LLMClient(es, en) : es \in StrategyEnv, en \in NumCtxEnv}
    /\ rot = NoRotation
    /\ inp = NoInput
    /\ out = NoOutput
    /\ InitRest

NextLlm ==
    \/ \E model \in LlmModels, tools \in ToolArgs : chat_call(model, tools)
    \/ \E model \in LlmModels : warmup_call(model)
    \/ ensure_model_ready
    \/ ensure_model_ready_response
    \/ chat_primary
    \/ chat_v1_response
    \/ chat_fallback
    \/ chat_fallback_response
    \/ chat_native_response

SpecLlm == InitLlm /\ [][NextLlm]_vars

(***************************************************************************)
(* Properties.                                                             *)
(***************************************************************************)
\* p is inside the try block of load_state, save_state or init_state.
InBody(p) == pc[p] \in {"ld_primary", "ld_lastgood", "aw_write", "aw_replace"}

\* r is d after the migration step, for some clock reading and random id.
IsMigrationOf(r, d) ==
    \E ts \in Timestamps, uid \in Uuids : r = ensure_state_defaults(d, ts, uid)

IsObject(content) == content.kind = "doc"

\* C1: no two processes are at once inside the body of load_state,
\* save_state or init_state, and a process inside it holds the state lock.
C1_BodiesUnderLock ==
    /\ \A p \in Procs : InBody(p) => acq[p] = "ok"
    /\ \A p, q \in Procs : p # q => ~(InBody(p) /\ InBody(q))

\* C2: when no lock file was ever stale and p obtained the lock and has not
\* released it at the moment q's acquire call on the same path returns, then
\* q's call did not obtain the lock: it returned the timeout outcome, after
\* the whole timeout had elapsed; and a call that found the path free and
\* timed out lost the lock to another process.
C2_ExactlyOneAcquires ==
    \A q \in Procs :
      (pc[q] = "acq_ret" /\ ~everStale[LockOf(op[q])]) =>
        /\ \A p \in Procs \ {q} :
             Holds(p) =>
               /\ acq[q] = "timeout"
               /\ elapsed[q] * TickSec >= TimeoutSec(LockOf(op[q]))
        /\ (acq[q] = "timeout" /\ seen[q] = "free") => ~quiet[q]

C2_Witness ==
    \E p, q \in Procs :
      /\ p # q /\ mode = "git"
      /\ pc[q] = "acq_ret" /\ acq[q] = "timeout" /\ seen[q] = "free"
      /\ Holds(p) /\ ~everStale["git"]

\* C3 as claimed: two processes never hold the git lock at once, however
\* long the holder keeps it.
C3_GitExclusiveAlways ==
    \A p, q \in Procs : (p # q /\ mode = "git") => ~(Holds(p) /\ Holds(q))

\* C3 amended: while no file at the git lock path has ever been older than
\* stale_sec, two processes never hold the git lock at once.
C3_GitExclusiveWhileFresh ==
    ~everStale["git"] =>
      \A p, q \in Procs : (p # q /\ mode = "git") => ~(Holds(p) /\ Holds(q))

C3_Witness ==
    \E p, q \in Procs :
      /\ p # q /\ mode = "git" /\ ~everStale["git"]
      /\ pc[p] = "git_cs" /\ pc[q] = "gl_sleep" /\ elapsed[q] > 0

\* The step is an acquire call of p deleting the lock file.
AcquireDeletes(p) ==
    /\ pc[p] \in {"fl_unlink", "gl_unlink"}
    /\ pc'[p] \in {"fl_try", "gl_try", "fl_sleep"}
    /\ lock[LockOf(op[p])].exists
    /\ ~lock'[LockOf(op[p])].exists

\* C4 as claimed: an acquire call deletes the lock file only when the file
\* is older than stale_sec.
C4_DeletesOnlyStale ==
    [][\A p \in Procs : AcquireDeletes(p) => OlderThanStale(LockOf(op[p]))]_vars

\* A call of q that found a fresh lock file which nobody replaced and which
\* did not become stale ends with the timeout outcome, the file in place.
FreshLockRespected ==
    \A q \in Procs :
      (pc[q] = "acq_ret" /\ seen[q] = "fresh" /\ quiet[q]) =>
        /\ acq[q] = "timeout"
        /\ lock[LockOf(op[q])].exists
        /\ lock[LockOf(op[q])].owner # q

\* C4 amended: an acquire call deletes a lock file only if some file at that
\* path has been older than stale_sec, and a call that found a fresh lock
\* file which stays held ends with the timeout outcome, the file in place.
C4_DeletesOnlyAfterStale ==
    [][/\ \A p \in Procs : AcquireDeletes(p) => everStale[LockOf(op[p])]
       /\ FreshLockRespected']_vars

C4_Witness ==
    \E q \in Procs :
      /\ pc[q] = "acq_ret" /\ seen[q] = "fresh" /\ quiet[q]
      /\ acq[q] = "timeout" /\ mode = "state"

\* C5: an acquire call that found a lock file older than stale_sec, with no
\* other process changing the file, returns success at once: it has not
\* slept, no time has passed, and the lock file is a new one of its own.
C5_StaleLockEvicted ==
    \A p \in Procs :
      (pc[p] = "acq_ret" /\ seen[p] = "stale" /\ quiet[p]) =>
        /\ acq[p] = "ok"
        /\ ~slept[p]
        /\ elapsed[p] = 0
        /\ lock[LockOf(op[p])] = NewLock(p)

C5_Witness ==
    \E p \in Procs :
      /\ pc[p] = "acq_ret" /\ seen[p] = "stale" /\ quiet[p]
      /\ acq[p] = "ok" /\ mode = "state"

\* C6: load_state never raises.
C6_LoadNeverRaises ==
    \A p \in Procs : op[p] = "load" => result[p].kind # "raise"

\* C7: the primary path never holds a partial document; during a call it
\* holds what it held when the call started or the complete document the
\* call is saving; and a load_state that follows a crash between the
\* temp-file write and the rename of the primary returns the migrated
\* document the primary held before, which is still there.
C7_PrimaryNeverTorn ==
    /\ primary.kind # "torn"
    /\ \A p \in Procs :
         InCall(p) => (primary = pre[p].primary \/ primary = json_dumps(st[p]))
    /\ \A p \in Procs :
         ( /\ op[p] = "load" /\ result[p].kind = "ret"
           /\ wreck.at = "aw_replace" /\ wreck.target = "primary"
           /\ IsObject(wreck.prev) ) =>
             /\ primary = wreck.prev
             /\ IsMigrationOf(result[p].doc, wreck.prev.doc)

C7_Witness ==
    \E p \in Procs :
      /\ op[p] = "load" /\ result[p].kind = "ret"
      /\ wreck.at = "aw_replace" /\ wreck.target = "primary"
      /\ IsObject(wreck.prev)

\* C8: when save_state raises, the primary and the last-good path hold what
\* they held before the call.
C8_FailedSaveChangesNothing ==
    \A p \in Procs :
      (op[p] = "save" /\ result[p].kind = "raise") =>
        (primary = pre[p].primary /\ lastGood = pre[p].lastGood)

\* C9: load_state returns the migrated primary document when the primary is
\* a JSON object, otherwise the migrated last-good document when that is a
\* JSON object, otherwise a fresh default document which is then the
\* content of the primary.
C9_LoadOrder ==
    \A p \in Procs :
      (op[p] = "load" /\ result[p].kind = "ret") =>
        IF IsObject(pre[p].primary)
        THEN IsMigrationOf(result[p].doc, pre[p].primary.doc)
        ELSE IF IsObject(pre[p].lastGood)
             THEN IsMigrationOf(result[p].doc, pre[p].lastGood.doc)
             ELSE /\ IsMigrationOf(result[p].doc, EmptyDoc)
                  /\ primary = json_dumps(result[p].doc)

C9_Witness ==
    \E p \in Procs :
      /\ op[p] = "load" /\ result[p].kind = "ret"
      /\ pre[p].primary = NonObject /\ IsObject(pre[p].lastGood)

\* C10: when the primary is missing or unparsable and the last-good file is
\* a JSON object, load_state returns the migrated last-good document and
\* the primary then holds that same document.
C10_PrimaryHealed ==
    \A p \in Procs :
      ( /\ op[p] = "load" /\ result[p].kind = "ret"
        /\ ~IsObject(pre[p].primary) /\ IsObject(pre[p].lastGood) ) =>
          /\ IsMigrationOf(result[p].doc, pre[p].lastGood.doc)
          /\ IsObject(primary)
          /\ primary.doc = result[p].doc

C10_Witness ==
    \E p \in Procs :
      /\ op[p] = "load" /\ result[p].kind = "ret"
      /\ pre[p].primary = Garbage /\ pre[p].lastGood = json_dumps(OldDoc)
      /\ primary = json_dumps(result[p].doc)

\* C11: a load_state that starts after save_state(D) has returned, with no
\* save_state call started since that return, returns the migrated D.
C11_LoadSeesLatestSave ==
    \A p \in Procs :
      ( /\ op[p] = "load" /\ result[p].kind = "ret"
        /\ pre[p].since.known /\ saved = pre[p].since ) =>
          IsMigrationOf(result[p].doc, saved.doc)

\* What datetime.now() and uuid.uuid4() can return on a second application.
LaterTimestamps == Timestamps \cup {"t3"}
LaterUuids == Uuids \cup {"u4"}

\* C12: a document that went through ensure_state_defaults is not changed by
\* a second application, whatever the clock and the random id then are: the
\* document a save is writing is the migrated argument, and migrating it
\* again gives the same document.
C12_MigrationIdempotent ==
    \A p \in Procs :
      (op[p] = "save" /\ pc[p] \in {"aw_write", "aw_replace", "release"}) =>
        /\ IsMigrationOf(st[p], pre[p].arg)
        /\ \A ts \in LaterTimestamps, uid \in LaterUuids :
             ensure_state_defaults(st[p], ts, uid) = st[p]

C12_Witness ==
    \E p \in Procs :
      /\ op[p] = "save" /\ pc[p] = "aw_replace"
      /\ pre[p].arg = BareDoc /\ st[p] # BareDoc
      /\ st[p]["session_id"] = "u3"

WellFormed(d) == RequiredKeys \subseteq DOMAIN d /\ DOMAIN d \cap LegacyKeys = {}

\* C13: every document load_state or init_state returns, and every document
\* a save writes to the primary or the last-good path, has the twelve
\* required keys and none of the seven deprecated keys.
C13_DocumentsWellFormed ==
    \A p \in Procs :
      /\ (op[p] \in {"load", "init"} /\ result[p].kind = "ret") =>
           WellFormed(result[p].doc)
      /\ tmp[p].kind = "doc" => WellFormed(tmp[p].doc)
      /\ (InCall(p) /\ primary # pre[p].primary) =>
           (IsObject(primary) /\ WellFormed(primary.doc))
      /\ (InCall(p) /\ lastGood # pre[p].lastGood) =>
           (IsObject(lastGood) /\ WellFormed(lastGood.doc))

C13_Witness ==
    \E p \in Procs :
      /\ op[p] = "load" /\ result[p].kind = "ret"
      /\ pre[p].primary = json_dumps(OldDoc)
      /\ WellFormed(result[p].doc) /\ ~WellFormed(OldDoc)

\* C14: all documents returned by load_state and init_state, in every
\* process, carry the same session_id.
C14_OneSessionId ==
    \A p, q \in Procs :
      ( /\ op[p] \in {"load", "init"} /\ result[p].kind = "ret"
        /\ op[q] \in {"load", "init"} /\ result[q].kind = "ret" ) =>
          result[p].doc["session_id"] = result[q].doc["session_id"]

C16_TwoHoldersThroughStaleOnly ==
    \A p, q \in Procs :
      ( /\ p # q /\ pc[q] = "acq_ret" /\ acq[q] = "ok"
        /\ Holds(p) /\ LockOf(op[p]) = LockOf(op[q]) ) =>
          /\ everStale[LockOf(op[q])]
          /\ lock[LockOf(op[q])] \in {NewLock(p), NewLock(q)}

\* Both calls found the stale file; q evicted it and created its lock; p
\* then deleted q's fresh lock and created its own; both return success.
C16_Witness ==
    \E p, q \in Procs :
      /\ p # q /\ LockOf(op[p]) = LockOf(op[q])
      /\ pc[p] = "acq_ret" /\ acq[p] = "ok" /\ seen[p] = "stale" /\ ~quiet[p]
      /\ pc[q] = "acq_ret" /\ acq[q] = "ok" /\ seen[q] = "stale"
      /\ lock[LockOf(op[p])] = NewLock(p)

\* C17: every running task id is the busy_task_id of exactly one slot, every
\* busy slot carries a running task (so no slot accounts for two tasks), and
\* a step that sets a slot's busy_task_id finds that slot Idle.
C17_OneTaskPerSlot ==
    /\ [](/\ \A t \in TaskIds :
               running[t].present <=> Cardinality(SlotsOf(t)) = 1
          /\ \A w \in Wids : workers[w] # NoTask => running[workers[w]].present
          /\ busy_count = Cardinality(running_ids))
    /\ [][\A w \in Wids :
            (workers'[w] # workers[w] /\ workers'[w] # NoTask)
                => workers[w] = NoTask]_vars

C17_Witness ==
    /\ last.op = "dispatch"
    /\ busy_count = MaxWorkers
    /\ Cardinality(running_ids) = MaxWorkers
    /\ pending # <<>>

\* The number of entries of task t in the pending list.
PendingCount(t) == Cardinality({i \in 1..Len(pending) : pending[i].id = t})

\* C18: after a hard-timeout reclamation the task has no running entry and no
\* slot, and, when its attempts were not used up, it is in the pending list
\* exactly once with its previous attempt plus 1.  A task is never both
\* pending and running, and never twice in the pending list.
C18_ReclaimedOnce ==
    /\ \A t \in TaskIds :
         /\ PendingCount(t) <= 1
         /\ ~(running[t].present /\ PendingCount(t) > 0)
    /\ last.op = "reclaim" =>
         /\ ~running[last.id].present
         /\ SlotsOf(last.id) = {}
         /\ last.attempt < MaxAttempts =>
              \E i \in 1..Len(pending) :
                  /\ pending[i].id = last.id
                  /\ pending[i].attempt = last.attempt + 1

C18_Witness ==
    /\ last.op = "reclaim"
    /\ last.attempt < MaxAttempts
    /\ last.id \in pending_ids
    /\ IdleWids # {}

\* C19: a task that failed or was reclaimed on its last allowed attempt is in
\* the terminal-failure record and not in the pending list; no task of the
\* terminal-failure record is pending or running; no pending or running task
\* carries an attempt beyond the maximum.
C19_BoundedRetries ==
    /\ (last.op \in {"fail", "reclaim"} /\ last.attempt >= MaxAttempts) =>
         /\ last.id \in terminal
         /\ last.id \notin pending_ids
    /\ \A t \in terminal : t \notin pending_ids /\ ~running[t].present
    /\ \A i \in 1..Len(pending) : pending[i].attempt <= MaxAttempts
    /\ \A t \in TaskIds : running[t].present => running[t].attempt <= MaxAttempts

C19_Witness ==
    /\ last.op \in {"fail", "reclaim"}
    /\ last.attempt = MaxAttempts
    /\ last.id \in terminal

\* C20: a refused dispatch leaves its task pending and not running, no task
\* gains a running entry in a step that starts with no Idle slot, and at
\* most MaxWorkers tasks are running.
C20_Backpressure ==
    /\ [](Cardinality(running_ids) <= MaxWorkers)
    /\ [](last.op = "refused" =>
            last.id \in pending_ids /\ ~running[last.id].present)
    /\ [][(\A w \in Wids : workers[w] # NoTask) =>
            \A t \in TaskIds : running'[t].present => running[t].present]_vars

C20_Witness ==
    /\ last.op = "refused"
    /\ \A w \in Wids : workers[w] # NoTask
    /\ Cardinality(running_ids) = MaxWorkers
    /\ last.id \in pending_ids

\* The position of task t in the pending list.
PendingIndex(t) == CHOOSE i \in 1..Len(pending) : pending[i].id = t

\* C21: the task a dispatch takes from the pending list is the most urgent
\* one (lowest priority value), and among equally urgent ones the earliest
\* enqueued: every other pending task has a greater priority value, or the
\* same value and a later position, whatever the order of insertion.
C21_MostUrgentFirst ==
    [][\A t \in pending_ids :
         (~running[t].present /\ running'[t].present) =>
            \A i \in 1..Len(pending) :
                \/ i = PendingIndex(t)
                \/ pending[i].priority > pending[PendingIndex(t)].priority
                \/ /\ pending[i].priority = pending[PendingIndex(t)].priority
                   /\ i > PendingIndex(t)]_vars

C21_Witness ==
    /\ last.op = "dispatch"
    /\ last.id = 2
    /\ pending # <<>>
    /\ \A i \in 1..Len(pending) : pending[i].priority > Priority(2)
    /\ IdleWids = {}

\* C22: a running entry is removed by reclamation only when its heartbeat
\* lag exceeds the hard timeout, whatever its runtime; and a soft-timeout
\* alert changes neither the slots, nor the running map, nor the pending
\* list, nor the terminal-failure record.
C22_ReclaimedOnlyForHeartbeatLag ==
    /\ [][\A t \in TaskIds :
            (running[t].present /\ ~running'[t].present /\ last'.op = "reclaim")
                => running[t].hb_lag * PoolTickSec > HardTimeoutSec]_vars
    /\ [][(last'.op = "alert" /\ last' # last) =>
            /\ running[last'.id].hb_lag * PoolTickSec > SoftTimeoutSec
            /\ workers' = workers
            /\ running' = running
            /\ pending' = pending
            /\ terminal' = terminal]_vars

C22_Witness ==
    \E t \in TaskIds :
        /\ running[t].present
        /\ running[t].runtime * PoolTickSec > HardTimeoutSec
        /\ running[t].hb_lag * PoolTickSec > SoftTimeoutSec
        /\ running[t].hb_lag * PoolTickSec <= HardTimeoutSec
        /\ last = [op |-> "alert", id |-> t, attempt |-> running[t].attempt]
        /\ SlotsOf(t) # {}
        /\ t \notin pending_ids

C24_StatusWritesNothing ==
    \A p \in Procs :
        (mode = "report" /\ op[p] = "load" /\ InCall(p)) =>
            /\ primary = pre[p].primary
            /\ lastGood = pre[p].lastGood

\* The well-formed llm_usage records of a log for model key m, by position.
WellFormedUsage(lines, m) ==
    {i \in 1..Len(lines) :
        /\ lines[i].kind = "object"
        /\ lines[i].type = "llm_usage"
        /\ lines[i].prompt_tokens.numeric
        /\ ModelKey(lines[i]) = m}

RECURSIVE SumTokens(_, _)
SumTokens(lines, is) ==
    IF is = {} THEN 0
    ELSE LET i == CHOOSE j \in is : TRUE
         IN  lines[i].prompt_tokens.val + SumTokens(lines, is \ {i})

\* C25: for every event log, model_breakdown returns for every model the
\* number and the token sum of exactly the well-formed llm_usage records of
\* that model: every malformed line is skipped without any effect on the
\* lines before or after it.
C25_ExactlyWellFormedRecords ==
    out.fn = "model_breakdown" =>
        \A m \in BreakdownKeys :
            /\ out.breakdown[m].calls
                  = Cardinality(WellFormedUsage(inp.lines, m))
            /\ out.breakdown[m].prompt_tokens
                  = SumTokens(inp.lines, WellFormedUsage(inp.lines, m))

\* C26: rotate_chat_log_if_needed rotates exactly when the chat log exists
\* and its size exceeds max_bytes: then the archive file holds the log's
\* previous content and the log is empty; otherwise the log and the archive
\* directory are unchanged.
C26_RotatesExactlyWhenExceeds ==
    out.fn = "rotate" =>
        IF inp.chat.exists /\ st_size(inp.chat) > inp.max_bytes
        THEN /\ out.archive[inp.ts] = File(inp.chat.data)
             /\ out.chat = File(<<>>)
        ELSE /\ out.chat = inp.chat
             /\ out.archive = inp.archive

\* The field is present and not the empty string.
NonEmpty(data, key) == data[key] \notin {Absent, ""}

\* The field is present and not empty once surrounding blanks are removed.
NonBlank(data, key) == data[key] \notin {Absent, "", " "}

\* The platform the configuration selects: vcs_platform without surrounding
\* blanks and in lower case, github when it is absent or empty.
Platform(data) ==
    CASE data["vcs_platform"] \in {Absent, "", "github", "GitHub"} -> "github"
      [] data["vcs_platform"] \in {"git", " git "} -> "git"
      [] OTHER -> data["vcs_platform"]

C28_WarmupFirst ==
    (llm.cold /\ llm.reqs # <<>>) =>
        /\ llm.reqs[1].endpoint = "/api/chat"
        /\ llm.reqs[1].payload = "warmup"
        /\ llm.reqs[1].model = llm.model
        /\ llm.reqs[1].num_ctx = llm.num_ctx
        /\ llm.num_ctx >= MinNumCtx
        /\ Len(llm.reqs) > 1 => llm.reqs[1].status = "ok"
        /\ \A i \in 2..Len(llm.reqs) : llm.reqs[i].payload = "chat"

C28_Witness ==
    /\ llm.cold
    /\ llm.tools = "some"
    /\ Len(llm.reqs) = 2
    /\ llm.reqs[2].endpoint = "/v1/chat/completions"
    /\ llm.reqs[2].status = "sent"

\* The completion requests of the current call, by position.
ChatRequests == {i \in 1..Len(llm.reqs) : llm.reqs[i].payload = "chat"}

\* The environment selects the hybrid strategy.
HybridEnv == llm.env_strategy \in {"hybrid", " Hybrid "}

\* C29: the first completion request of a call goes to /api/chat when the
\* strategy is hybrid and the call has no tools, and then no request of the
\* call goes to /v1/chat/completions; it goes to /v1/chat/completions when
\* the call has tools or the strategy is single_v1; any value of the setting
\* other than hybrid, unrecognized ones included, behaves as single_v1.
C29_PrimaryEndpoint ==
    ChatRequests # {} =>
        LET first == CHOOSE i \in ChatRequests : \A j \in ChatRequests : i <= j
        IN  IF HybridEnv /\ llm.tools # "some"
            THEN /\ llm.reqs[first].endpoint = "/api/chat"
                 /\ \A i \in 1..Len(llm.reqs) :
                        llm.reqs[i].endpoint # "/v1/chat/completions"
            ELSE llm.reqs[first].endpoint = "/v1/chat/completions"

C29_Witness ==
    /\ llm.env_strategy = "other"
    /\ llm.tools = "none"
    /\ ~llm.cold
    /\ Len(llm.reqs) = 1
    /\ llm.reqs[1].endpoint = "/v1/chat/completions"
    /\ llm.result = "message"

\* The timeout of the acquire call of p has elapsed.
TimedOut(p) ==
    acq[p] = "pending" /\ elapsed[p] * TickSec >= TimeoutSec(LockOf(op[p]))

\* C30: every acquire call ends, with the lock or with a timeout, whoever
\* holds the lock file and for however long; the timeout can only elapse
\* during a back-off sleep, and the loop test that follows that sleep ends the
\* call (if the process has not died) without a further attempt or sleep;
\* load_state, save_state and init_state end as well.
C30_AcquireTerminates ==
    /\ \A p \in Procs : (acq[p] = "pending") ~> (acq[p] # "pending")
    /\ (op["p1"] \in {"load", "save", "init"}) ~> (op["p1"] = "none")
    /\ [](\A p \in Procs :
            TimedOut(p) => pc[p] \in {"fl_sleep", "gl_sleep", "fl_try", "gl_try"})
    /\ [][\A p \in Procs :
            (TimedOut(p) /\ pc[p] \in {"fl_try", "gl_try"}
                          /\ pc'[p] \notin {pc[p], "crashed"})
                => (pc'[p] = "acq_ret" /\ acq'[p] = "timeout")]_vars

C30_Witness ==
    \E p \in Procs :
        /\ pc[p] = "acq_ret"
        /\ acq[p] = "timeout"
        /\ op[p] = "git"
        /\ lock["git"].exists
        /\ lock["git"].owner \in Procs \ {p}

\* Process p ends a release of lock l in this step and the lock file that
\* was at the path is gone after it.
ReleaseDeletes(p, l) ==
    /\ pc[p] = (IF l = "state" THEN "release" ELSE "git_cs")
    /\ pc'[p] = "done"
    /\ lock[l].exists
    /\ ~lock'[l].exists

\* C31: a release removes only the releaser's own lock: the lock file that
\* release_file_lock or release_git_lock deletes was created by the
\* releasing process, never by another process through a later acquire.
C31_ReleaseOnlyOwn ==
    [][\A p \in Procs, l \in Locks : ReleaseDeletes(p, l) => lock[l].owner = p]_vars

\* save_state or init_state of p has returned normally and had the lock.
SavedWithLock(p) ==
    /\ pc[p] = "done"
    /\ op[p] \in {"save", "init"}
    /\ acq[p] = "ok"
    /\ result[p].kind = "ret"

\* The two paths hold the same content, the migrated document of the call.
PairIsMigrated(p) ==
    /\ lastGood = primary
    /\ IF op[p] = "init"
       THEN primary = json_dumps(result[p].doc)
       ELSE \E ts \in Timestamps, uid \in UuidChoices :
              primary = json_dumps(ensure_state_defaults(pre[p].arg, ts, uid))

\* After a save_state or init_state that returned normally with the lock,
\* both paths hold the migrated document (the first half of C32).
PairAfterSave == \A p \in Procs : SavedWithLock(p) => PairIsMigrated(p)

\* The save of p's call has renamed the primary and not yet the last-good
\* file: it is the most recent save, and pre[p].primary is what the primary
\* held immediately before it.
PrimaryRenamed(p) ==
    pc[p] \in {"aw_write", "aw_replace"} /\ target[p] = "lastgood"

\* C32: after a save_state or init_state that returned normally with the
\* lock, both paths hold the migrated document; and, crashes of earlier calls
\* included, once a save has renamed the primary the last-good content is the
\* current primary content or the content the primary held immediately
\* before that save.
C32_LastGoodAtMostOneBehind ==
    /\ PairAfterSave
    /\ \A p \in Procs :
         PrimaryRenamed(p) => lastGood \in {primary, pre[p].primary}

\* init_state of p has read the state and has not yet renamed the primary.
InitBetween(p) ==
    /\ op[p] = "init"
    /\ pc[p] \in {"aw_write", "aw_replace"}
    /\ target[p] = "primary"

\* C33: between the read and the write of an init_state no write of another
\* process takes effect on the state files; while init_state is between the
\* two with a lock that was never evicted, the lock file is its own; and once
\* init_state has ended, normally or with an exception, no lock file of its
\* own is left.
C33_InitStateAtomic ==
    /\ [][\A p \in Procs :
            (InitBetween(p) /\ InitBetween(p)') =>
                (primary' = primary /\ lastGood' = lastGood)]_vars
    /\ [](\A p \in Procs :
            (InitBetween(p) /\ acq[p] = "ok" /\ ~everStale["state"]) =>
                (lock["state"].exists /\ lock["state"].owner = p))
    /\ [](\A p \in Procs :
            (pc[p] = "done" /\ op[p] = "init") =>
                ~(lock["state"].exists /\ lock["state"].owner = p))

\* C34: ensure_state_defaults leaves every key that is present and not
\* deprecated with the value it had, unknown keys and required keys holding
\* null included; the keys of the result are those of the argument, plus the
\* missing required keys with their defaults, minus the deprecated keys.
C34_KeepsPresentKeys ==
    out.fn = "ensure_state_defaults" =>
        /\ \A k \in (DOMAIN inp.st) \ LegacyKeys :
             k \in DOMAIN out.st /\ out.st[k] = inp.st[k]
        /\ DOMAIN out.st = ((DOMAIN inp.st) \cup RequiredKeys) \ LegacyKeys
        /\ \A k \in RequiredKeys \ DOMAIN inp.st :
             out.st[k] = DefaultValue(k, inp.ts, inp.uid)

C34_Witness ==
    /\ out.fn = "ensure_state_defaults"
    /\ DOMAIN inp.st = {"owner_id", "session_id", "approvals", "custom"}
    /\ inp.st["owner_id"] = "null"
    /\ inp.st["session_id"] = "null"
    /\ out.st["session_id"] = "null"
    /\ out.st["custom"] = "7"
    /\ out.st["tg_offset"] = "0"

\* The warmup requests of the current call, by position.
WarmupRequests == {i \in 1..Len(llm.reqs) : llm.reqs[i].payload = "warmup"}

\* The warmup of the current call was answered, and not with success.
WarmupFailed ==
    1 \in WarmupRequests /\ llm.reqs[1].status \in {"fail", "invalid"}

\* C35: a model enters the warmed set only in the step in which its warmup
\* request is answered with success; a call whose warmup fails ends there,
\* a chat call with the error, without any completion request and with the
\* model still not warmed; and a call on a model that was warmed when the
\* call began sends no warmup request.
C35_WarmupUntilSuccess ==
    /\ [][\A m \in LlmModels :
            (m \in llm'.warmed_models /\ m \notin llm.warmed_models) =>
                /\ llm.pc = "warmup" /\ llm.model = m
                /\ llm.reqs[Len(llm.reqs)].payload = "warmup"
                /\ llm'.reqs[Len(llm.reqs)].status = "ok"]_vars
    /\ [](WarmupFailed =>
            /\ llm.pc = "idle"
            /\ ChatRequests = {}
            /\ llm.model \notin llm.warmed_models
            /\ llm.entry = "chat" =>
                 llm.result \in {"LLMTransportError", "ValueError"})
    /\ [](~llm.cold => WarmupRequests = {})
    /\ [](llm.warmed_models \subseteq LlmModels /\ Cardinality(WarmupRequests) <= 1)

C35_Witness ==
    /\ ~llm.cold
    /\ llm.entry = "chat"
    /\ llm.model \in llm.warmed_models
    /\ llm.warmed_models # LlmModels
    /\ Len(llm.reqs) = 1
    /\ llm.reqs[1].payload = "chat"
    /\ llm.result = "message"

\* The requests of the current call that follow a failed request to
\* /v1/chat/completions.
AfterV1Failure ==
    {i \in 2..Len(llm.reqs) :
        /\ llm.reqs[i - 1].endpoint = "/v1/chat/completions"
        /\ llm.reqs[i - 1].status = "fail"}

V1Failed ==
    \E i \in 1..Len(llm.reqs) :
        llm.reqs[i].endpoint = "/v1/chat/completions" /\ llm.reqs[i].status = "fail"

\* The call has ended after a fallback request that was answered.
FallbackAnswered ==
    llm.pc = "idle" /\ AfterV1Failure # {} /\ llm.reqs[Len(llm.reqs)].status = "ok"

\* What C36 says apart from the parsing of the reply: one fallback request,
\* to /api/chat and without tools, after a failure with tools; LLMError when
\* it fails as well; no further request and the original error after a
\* failure without tools.
FallbackRequests ==
    /\ \A i \in AfterV1Failure :
         /\ llm.tools = "some"
         /\ i = Len(llm.reqs)
         /\ llm.reqs[i].endpoint = "/api/chat"
         /\ llm.reqs[i].payload = "chat"
         /\ ~llm.reqs[i].tools
    /\ (V1Failed /\ llm.pc = "idle") =>
         IF llm.tools = "some"
         THEN /\ AfterV1Failure # {}
              /\ llm.reqs[Len(llm.reqs)].status = "fail" <=> llm.result = "LLMError"
              /\ llm.reqs[Len(llm.reqs)].status = "ok" =>
                   llm.result \in {"message", "message_tool_calls"}
         ELSE /\ AfterV1Failure = {}
              /\ llm.result \in {"LLMTransportError", "LLMProtocolError"}

\* The reply has a JSON tool call somewhere in its text.
ContainsToolCall(text) ==
    \E i \in 1..Len(text) : text[i] \in {"call_name", "call_function_name"}

\* The braces of the reply are those of one JSON tool call and no others.
IsOneToolCall(text) ==
    /\ Cardinality({i \in 1..Len(text) : text[i] # "prose"}) = 1
    /\ ContainsToolCall(text)

LinesOf(file) == {file.data[i] : i \in 1..Len(file.data)}

\* The lines that are in the chat log or in an archive file.
KeptLines ==
    LinesOf(rot.chat) \cup UNION {LinesOf(rot.archive[t]) : t \in ArchiveStamps}

\* C37: whenever no rotation is under way, every line that was appended to
\* the chat log is in the chat log or in an archive file.
C37_RotationLosesNothing ==
    (\A r \in Rotators : rot.pc[r] = "idle") => (1..rot.appended) \subseteq KeptLines

\* load_runtime_config has returned a RuntimeConfig.
ConfigReturned ==
    /\ mode = "timeouts"
    /\ out # NoOutput
    /\ out.raised = "none"

\* C38: every RuntimeConfig returned by load_runtime_config has
\* soft_timeout_sec <= hard_timeout_sec.
C38_SoftNoLaterThanHard ==
    ConfigReturned => out.soft_timeout_sec <= out.hard_timeout_sec
====
